---------------------------- MODULE Spec2Model ----------------------------
(***************************************************************************)
(* A model of the WHO clinical-trials parser (src/parser.py).              *)
(*                                                                         *)
(* Texts are sequences of one-character strings, so that lower(), strip(), *)
(* split(), replace(), the regular expressions and int() are computed the  *)
(* way Python computes them.  A missing cell of the data frame (NaN) is    *)
(* the value NaN.  A Python value that may be None is a sequence of        *)
(* length 0 (None) or 1 (the value); a dict is a function on its keys.     *)
(***************************************************************************)
EXTENDS Integers, Sequences, FiniteSets, TLC

\* table is the country table the run reads (ctry_dict of getWHOTrials)
VARIABLES raw, table, df, pc, out, stdout, exc, fn, ret

vars == <<raw, table, df, pc, out, stdout, exc, fn, ret>>

-----------------------------------------------------------------------------
(* Python values *)

\* float("nan"): what pandas stores for an empty cell; x == x is False for it
NaN == <<"NaN">>

\* the test "x == x" of the source
notnan(x) == x # NaN

None == <<>>

Some(x) == <<x>>

\* the result of a call: a returned value or a raised exception
Return(v) == [ok |-> TRUE, v |-> v]

Raise(e) == [ok |-> FALSE, e |-> e]

-----------------------------------------------------------------------------
(* str methods *)

Upper == <<"A","B","C","D","E","F","G","H","I","J","K","L","M",
           "N","O","P","Q","R","S","T","U","V","W","X","Y","Z">>

Lower == <<"a","b","c","d","e","f","g","h","i","j","k","l","m",
           "n","o","p","q","r","s","t","u","v","w","x","y","z">>

lowerChar(c) ==
    IF \E i \in 1..26 : Upper[i] = c
    THEN Lower[CHOOSE i \in 1..26 : Upper[i] = c]
    ELSE c

upperChar(c) ==
    IF \E i \in 1..26 : Lower[i] = c
    THEN Upper[CHOOSE i \in 1..26 : Lower[i] = c]
    ELSE c

\* str.lower()
lower(s) == [i \in 1..Len(s) |-> lowerChar(s[i])]

\* str.upper()
upper(s) == [i \in 1..Len(s) |-> upperChar(s[i])]

Whitespace == {" ", "\t", "\n", "\r"}

Digits == <<"0","1","2","3","4","5","6","7","8","9">>

isDigit(c) == \E i \in 1..10 : Digits[i] = c

digitVal(c) == (CHOOSE i \in 1..10 : Digits[i] = c) - 1

\* str.strip()
strip(s) ==
    LET keep == {i \in 1..Len(s) : s[i] \notin Whitespace}
    IN  IF keep = {} THEN <<>>
        ELSE SubSeq(s, CHOOSE i \in keep : \A j \in keep : i <= j,
                       CHOOSE i \in keep : \A j \in keep : i >= j)

\* does sub occur in s at position i
matchAt(s, sub, i) ==
    /\ i >= 1
    /\ i + Len(sub) - 1 <= Len(s)
    /\ SubSeq(s, i, i + Len(sub) - 1) = sub

\* str.find(), 1-based; 0 when sub does not occur at or after position from
findFrom(s, sub, from) ==
    LET at == {i \in from..(Len(s) - Len(sub) + 1) : matchAt(s, sub, i)}
    IN  IF at = {} THEN 0 ELSE CHOOSE i \in at : \A j \in at : i <= j

find(s, sub) == findFrom(s, sub, 1)

\* the test "sub in s"
contains(s, sub) == find(s, sub) # 0

RECURSIVE split(_, _)
\* str.split(sep): the pieces between the leftmost non-overlapping seps
split(s, sep) ==
    LET i == find(s, sep)
    IN  IF i = 0 THEN <<s>>
        ELSE <<SubSeq(s, 1, i - 1)>> \o split(SubSeq(s, i + Len(sep), Len(s)), sep)

RECURSIVE join(_, _)
\* sep.join(parts)
join(parts, sep) ==
    IF Len(parts) = 0 THEN <<>>
    ELSE IF Len(parts) = 1 THEN parts[1]
    ELSE parts[1] \o sep \o join(Tail(parts), sep)

\* str.replace(old, new), old not empty
replace(s, old, new) == join(split(s, old), new)

RECURSIVE splitAny(_, _)
\* re.split("a|b|...", s) for one-character alternatives
splitAny(s, seps) ==
    LET at == {i \in 1..Len(s) : s[i] \in seps}
    IN  IF at = {} THEN <<s>>
        ELSE LET i == CHOOSE k \in at : \A j \in at : k <= j
             IN  <<SubSeq(s, 1, i - 1)>> \o splitAny(SubSeq(s, i + 1, Len(s)), seps)

RECURSIVE digitsValue(_)
digitsValue(s) ==
    IF Len(s) = 0 THEN 0
    ELSE 10 * digitsValue(SubSeq(s, 1, Len(s) - 1)) + digitVal(s[Len(s)])

\* int(text): surrounding whitespace, one optional sign, digits that single
\* underscores may group; anything else raises ValueError
int(text) ==
    LET t    == strip(text)
        sgn  == Len(t) > 0 /\ t[1] \in {"+", "-"}
        body == IF sgn THEN Tail(t) ELSE t
        good == /\ Len(body) > 0
                /\ isDigit(body[1])
                /\ isDigit(body[Len(body)])
                /\ \A i \in 1..Len(body) : isDigit(body[i]) \/ body[i] = "_"
                /\ \A i \in 1..(Len(body) - 1) : ~(body[i] = "_" /\ body[i + 1] = "_")
        ds   == SelectSeq(body, isDigit)
    IN  IF ~good THEN Raise("ValueError")
        ELSE Return(IF sgn /\ t[1] = "-" THEN 0 - digitsValue(ds) ELSE digitsValue(ds))

RECURSIVE sum(_)
\* sum(list of int)
sum(xs) == IF Len(xs) = 0 THEN 0 ELSE xs[1] + sum(Tail(xs))

RECURSIVE flattenList(_)
\* [item for sublist in l for item in sublist]
flattenList(l) == IF Len(l) = 0 THEN <<>> ELSE l[1] \o flattenList(Tail(l))

\* a dict literal as a sequence of <<key, value>>; the last entry of a key wins
has(dict, k) == \E i \in 1..Len(dict) : dict[i][1] = k

get(dict, k) ==
    LET at == {i \in 1..Len(dict) : dict[i][1] = k}
    IN  dict[CHOOSE i \in at : \A j \in at : i >= j][2]

-----------------------------------------------------------------------------
(* regular expressions of the source *)

\* is there, from position p on, at least one character other than a newline
\* and then the character term, with no newline before it: the end of ".+?"
\* followed by term.  The position of that term, or 0.
lazyEnd(s, p, term) ==
    LET ends == {j \in (p + 1)..Len(s) :
                    /\ s[j] = term
                    /\ \A k \in p..(j - 1) : s[k] # "\n"}
    IN  IF p > Len(s) \/ ends = {} THEN 0
        ELSE CHOOSE j \in ends : \A k \in ends : j <= k

\* re.search(prefix + "(.+?)" + term, s): None, or group 1 of the leftmost match
searchLazy(s, prefix, term) ==
    LET starts == {i \in 1..Len(s) :
                      matchAt(s, prefix, i) /\ lazyEnd(s, i + Len(prefix), term) # 0}
    IN  IF starts = {} THEN None
        ELSE LET i == CHOOSE a \in starts : \A b \in starts : a <= b
                 p == i + Len(prefix)
             IN  Some(SubSeq(s, p, lazyEnd(s, p, term) - 1))

\* a character of the class \w
isWord(c) ==
    \/ isDigit(c)
    \/ c = "_"
    \/ \E i \in 1..26 : Upper[i] = c \/ Lower[i] = c

\* the end of the longest run of \w characters that starts at p (p - 1 if none)
wordEnd(s, p) ==
    LET stops == {j \in p..(Len(s) + 1) : j = Len(s) + 1 \/ ~isWord(s[j])}
    IN  (CHOOSE j \in stops : \A k \in stops : j <= k) - 1

\* re.search("\(phase (\w+)\)", s): None, or group 1 of the leftmost match
searchPhase(s) ==
    LET prefix == <<"(","p","h","a","s","e"," ">>
        starts == {i \in 1..Len(s) :
                      /\ matchAt(s, prefix, i)
                      /\ wordEnd(s, i + Len(prefix)) >= i + Len(prefix)
                      /\ wordEnd(s, i + Len(prefix)) < Len(s)
                      /\ s[wordEnd(s, i + Len(prefix)) + 1] = ")"}
    IN  IF starts = {} THEN None
        ELSE LET i == CHOOSE a \in starts : \A b \in starts : a <= b
                 p == i + Len(prefix)
             IN  Some(SubSeq(s, p, wordEnd(s, p)))

-----------------------------------------------------------------------------
(* study design *)

type_dict == <<
    <<<<"i","n","t","e","r","v","e","n","t","i","o","n">>, <<"i","n","t","e","r","v","e","n","t","i","o","n","a","l">>>>,
    <<<<"t","r","e","a","t","m","e","n","t"," ","s","t","u","d","y">>, <<"i","n","t","e","r","v","e","n","t","i","o","n","a","l">>>>,
    <<<<"i","n","t","e","r","v","e","n","t","i","o","n","a","l"," ","s","t","u","d","y">>, <<"i","n","t","e","r","v","e","n","t","i","o","n","a","l">>>>,
    <<<<"i","n","t","e","r","v","e","n","t","i","o","n","a","l"," ","c","l","i","n","i","c","a","l"," ","t","r","i","a","l"," ","o","f"," ","m","e","d","i","c","i","n","a","l"," ","p","r","o","d","u","c","t">>, <<"i","n","t","e","r","v","e","n","t","i","o","n","a","l">>>>,
    <<<<"p","r","e","v","e","n","t","i","o","n">>, <<"p","r","e","v","e","n","t","i","o","n">>>>,
    <<<<"o","b","s","e","r","v","a","t","i","o","n","a","l"," ","s","t","u","d","y">>, <<"o","b","s","e","r","v","a","t","i","o","n","a","l">>>>,
    <<<<"e","p","i","d","e","m","i","l","o","g","i","c","a","l"," ","r","e","s","e","a","r","c","h">>, <<"o","b","s","e","r","v","a","t","i","o","n","a","l">>>>,
    <<<<"p","r","o","g","n","o","s","i","s"," ","s","t","u","d","y">>, <<"o","b","s","e","r","v","a","t","i","o","n","a","l">>>>,
    <<<<"d","i","a","g","n","o","s","t","i","c"," ","t","e","s","t">>, <<"d","i","a","g","n","o","s","t","i","c"," ","t","e","s","t">>>>,
    <<<<"s","c","r","e","e","n","i","n","g">>, <<"s","c","r","e","e","n","i","n","g">>>>,
    <<<<"b","a","s","i","c"," ","s","c","i","e","n","c","e">>, <<"b","a","s","i","c"," ","s","c","i","e","n","c","e">>>>,
    <<<<"h","e","a","l","t","h"," ","s","e","r","v","i","c","e","s"," ","r","e","s","e","a","r","c","h">>, <<"h","e","a","l","t","h"," ","s","e","r","v","i","c","e","s"," ","r","e","s","e","a","r","c","h">>>>,
    <<<<"h","e","a","l","t","h"," ","s","e","r","v","i","c","e","s"," ","r","e","a","s","e","r","c","h">>, <<"h","e","a","l","t","h"," ","s","e","r","v","i","c","e","s"," ","r","e","s","e","a","r","c","h">>>>,
    <<<<"o","t","h","e","r","s",",","m","e","t","a","-","a","n","a","l","y","s","i","s"," ","e","t","c">>, <<"o","t","h","e","r","s">>>> >>

\* None for a missing type, else the table's value or the lower-cased text
standardizeType(type) ==
    IF notnan(type)
    THEN IF has(type_dict, lower(type)) THEN Some(get(type_dict, lower(type)))
         ELSE Some(lower(type))
    ELSE None

\* the values are Python values that may be None ("not selected")
phase_dict == <<
    <<<<"N","/","A">>, Some(<<<<"n","o","t"," ","a","p","p","l","i","c","a","b","l","e">>>>)>>,
    <<<<"r","e","t","r","o","s","p","e","c","t","i","v","e">>, Some(<<<<"n","o","t"," ","a","p","p","l","i","c","a","b","l","e">>>>)>>,
    <<<<"r","e","t","r","o","s","p","e","c","t","i","v","e"," ","s","t","u","d","y">>, Some(<<<<"n","o","t"," ","a","p","p","l","i","c","a","b","l","e">>>>)>>,
    <<<<"0">>, Some(<<<<"p","h","a","s","e"," ","0">>>>)>>,
    <<<<"1">>, Some(<<<<"p","h","a","s","e"," ","1">>>>)>>,
    <<<<"2">>, Some(<<<<"p","h","a","s","e"," ","2">>>>)>>,
    <<<<"3">>, Some(<<<<"p","h","a","s","e"," ","3">>>>)>>,
    <<<<"4">>, Some(<<<<"p","h","a","s","e"," ","4">>>>)>>,
    <<<<"i">>, Some(<<<<"p","h","a","s","e"," ","1">>>>)>>,
    <<<<"i","i">>, Some(<<<<"p","h","a","s","e"," ","2">>>>)>>,
    <<<<"i","i","i">>, Some(<<<<"p","h","a","s","e"," ","3">>>>)>>,
    <<<<"i","v">>, Some(<<<<"p","h","a","s","e"," ","4">>>>)>>,
    <<<<"p","h","a","s","e"," ","i">>, Some(<<<<"p","h","a","s","e"," ","1">>>>)>>,
    <<<<"p","h","a","s","e"," ","i","i">>, Some(<<<<"p","h","a","s","e"," ","2">>>>)>>,
    <<<<"p","h","a","s","e"," ","i","i","i">>, Some(<<<<"p","h","a","s","e"," ","3">>>>)>>,
    <<<<"p","h","a","s","e"," ","i","v">>, Some(<<<<"p","h","a","s","e"," ","4">>>>)>>,
    <<<<"p","h","a","s","e","-","1">>, Some(<<<<"p","h","a","s","e"," ","1">>>>)>>,
    <<<<"p","h","a","s","e","-","2">>, Some(<<<<"p","h","a","s","e"," ","2">>>>)>>,
    <<<<"p","h","a","s","e","-","3">>, Some(<<<<"p","h","a","s","e"," ","3">>>>)>>,
    <<<<"p","h","a","s","e","-","4">>, Some(<<<<"p","h","a","s","e"," ","4">>>>)>>,
    <<<<"p","h","a","s","e"," ","1","/","p","h","a","s","e"," ","2">>, Some(<<<<"p","h","a","s","e"," ","1">>, <<"p","h","a","s","e"," ","2">>>>)>>,
    <<<<"p","h","a","s","e"," ","1"," ","/"," ","p","h","a","s","e"," ","2">>, Some(<<<<"p","h","a","s","e"," ","1">>, <<"p","h","a","s","e"," ","2">>>>)>>,
    <<<<"1","-","2">>, Some(<<<<"p","h","a","s","e"," ","1">>, <<"p","h","a","s","e"," ","2">>>>)>>,
    <<<<"p","h","a","s","e"," ","i","/","i","i">>, Some(<<<<"p","h","a","s","e"," ","1">>, <<"p","h","a","s","e"," ","2">>>>)>>,
    <<<<"p","h","a","s","e"," ","2","/","p","h","a","s","e"," ","3">>, Some(<<<<"p","h","a","s","e"," ","2">>, <<"p","h","a","s","e"," ","3">>>>)>>,
    <<<<"p","h","a","s","e"," ","2"," ","/"," ","p","h","a","s","e"," ","3">>, Some(<<<<"p","h","a","s","e"," ","2">>, <<"p","h","a","s","e"," ","3">>>>)>>,
    <<<<"p","h","a","s","e"," ","2","/","p","h","a","s","e"," ","3">>, Some(<<<<"p","h","a","s","e"," ","2">>, <<"p","h","a","s","e"," ","3">>>>)>>,
    <<<<"p","h","a","s","e"," ","i","i","/","i","i","i">>, Some(<<<<"p","h","a","s","e"," ","2">>, <<"p","h","a","s","e"," ","3">>>>)>>,
    <<<<"i","i","-","i","i","i">>, Some(<<<<"p","h","a","s","e"," ","2">>, <<"p","h","a","s","e"," ","3">>>>)>>,
    <<<<"2","-","3">>, Some(<<<<"p","h","a","s","e"," ","2">>, <<"p","h","a","s","e"," ","3">>>>)>>,
    <<<<"n","o","t"," ","s","e","l","e","c","t","e","d">>, None>> >>

\* the EU-CTR branch: one phase token for every line that contains "yes"
phaseTokens(phase) ==
    LET lines == SelectSeq(split(phase, <<"\n">>), LAMBDA item : contains(item, <<"y","e","s">>))
    IN  [i \in 1..Len(lines) |-> searchPhase(lower(lines[i]))]

\* Return(None), Return(Some(list of labels)) or the exception raised
standardizePhase(phase) ==
    IF notnan(phase)
    THEN IF contains(lower(phase), <<"h","u","m","a","n"," ","p","h","a","r","m","a","c","o","l","o","g","y">>)
         THEN LET phases == phaseTokens(phase)
              IN  IF \E i \in 1..Len(phases) : phases[i] = None
                  THEN Raise("TypeError")
                  ELSE IF \E i \in 1..Len(phases) : ~has(phase_dict, phases[i][1])
                  THEN Raise("KeyError")
                  ELSE IF \E i \in 1..Len(phases) : get(phase_dict, phases[i][1]) = None
                  THEN Raise("TypeError")
                  ELSE Return(Some(flattenList(
                           [i \in 1..Len(phases) |-> get(phase_dict, phases[i][1])[1]])))
         ELSE IF has(phase_dict, lower(phase))
              THEN Return(get(phase_dict, lower(phase)))
              ELSE Return(Some(<<lower(phase)>>))
    ELSE Return(None)

\* the elements flatten() yields for the returned value: the two numbers of
\* the list [0,1], the one number, or the one None
getPhaseNumber(phase) ==
    IF phase = <<"e","a","r","l","y"," ","p","h","a","s","e"," ","1">> THEN <<Some(0), Some(1)>>
    ELSE IF phase = <<"p","h","a","s","e"," ","0">> THEN <<Some(0)>>
    ELSE IF phase = <<"p","h","a","s","e"," ","1">> THEN <<Some(1)>>
    ELSE IF phase = <<"p","h","a","s","e"," ","2">> THEN <<Some(2)>>
    ELSE IF phase = <<"p","h","a","s","e"," ","3">> THEN <<Some(3)>>
    ELSE IF phase = <<"p","h","a","s","e"," ","4">> THEN <<Some(4)>>
    ELSE <<None>>

model_dict == <<
    <<<<"c","r","o","s","s","-","o","v","e","r">>, <<"c","r","o","s","s","o","v","e","r"," ","a","s","s","i","g","n","m","e","n","t">>>>,
    <<<<"c","r","o","s","s","o","v","e","r">>, <<"c","r","o","s","s","o","v","e","r"," ","a","s","s","i","g","n","m","e","n","t">>>>,
    <<<<"c","r","o","s","s"," ","o","v","e","r">>, <<"c","r","o","s","s","o","v","e","r"," ","a","s","s","i","g","n","m","e","n","t">>>>,
    <<<<"f","a","c","t","o","r","i","a","l">>, <<"f","a","c","t","o","r","i","a","l"," ","a","s","s","i","g","n","m","e","n","t">>>>,
    <<<<"p","a","r","a","l","l","e","l">>, <<"p","a","r","a","l","l","e","l"," ","a","s","s","i","g","n","m","e","n","t">>>>,
    <<<<"s","e","q","u","e","n","t","i","a","l">>, <<"s","e","q","u","e","n","t","i","a","l"," ","a","s","s","i","g","n","m","e","n","t">>>>,
    <<<<"s","i","n","g","l","e"," ","g","r","o","u","p">>, <<"s","i","n","g","l","e"," ","g","r","o","u","p"," ","a","s","s","i","g","n","m","e","n","t">>>>,
    <<<<"s","i","n","g","l","e"," ","a","r","m">>, <<"s","i","n","g","l","e"," ","g","r","o","u","p"," ","a","s","s","i","g","n","m","e","n","t">>>>,
    <<<<"s","i","n","g","l","e"," ","a","r","m"," ","s","t","u","d","y">>, <<"s","i","n","g","l","e"," ","g","r","o","u","p"," ","a","s","s","i","g","n","m","e","n","t">>>>,
    <<<<"c","a","s","e"," ","c","o","n","t","r","o","l">>, <<"c","a","s","e"," ","c","o","n","t","r","o","l">>>>,
    <<<<"c","a","s","e","-","c","o","n","t","r","o","l">>, <<"c","a","s","e","-","c","o","n","t","r","o","l">>>>,
    <<<<"c","a","s","e","-","c","o","n","t","r","o","l"," ","s","t","u","d","y">>, <<"c","a","s","e","-","c","o","n","t","r","o","l">>>>,
    <<<<"c","a","s","e","-","c","r","o","s","s","o","v","e","r">>, <<"c","a","s","e","-","c","r","o","s","s","o","v","e","r">>>>,
    <<<<"c","a","s","e","-","o","n","l","y">>, <<"c","a","s","e","-","o","n","l","y">>>>,
    <<<<"c","a","s","e"," ","s","t","u","d","y">>, <<"c","a","s","e","-","o","n","l","y">>>>,
    <<<<"c","o","h","o","r","t">>, <<"c","o","h","o","r","t">>>>,
    <<<<"c","o","h","o","r","t"," ","s","t","u","d","y">>, <<"c","o","h","o","r","t">>>>,
    <<<<"d","e","f","i","n","e","d"," ","p","o","p","u","l","a","t","i","o","n">>, <<"d","e","f","i","n","e","d"," ","p","o","p","u","l","a","t","i","o","n">>>>,
    <<<<"e","c","o","l","o","g","i","c"," ","o","r"," ","c","o","m","m","u","n","i","t","y">>, <<"e","c","o","l","o","g","i","c"," ","o","r"," ","c","o","m","m","u","n","i","t","y">>>>,
    <<<<"f","a","m","i","l","y","-","b","a","s","e","d">>, <<"f","a","m","i","l","y","-","b","a","s","e","d">>>>,
    <<<<"n","a","t","u","r","a","l"," ","h","i","s","t","o","r","y">>, <<"n","a","t","u","r","a","l"," ","h","i","s","t","o","r","y">>>>,
    <<<<"o","t","h","e","r">>, <<"o","t","h","e","r">>>> >>

\* try: return(dict[key]) / except: return(key)
lookupOrSelf(dict, key) == IF has(dict, key) THEN get(dict, key) ELSE key

\* the registry formats of standardizeModel, in the order they are tried
iran_design(design) == searchLazy(lower(design), <<"a","s","s","i","g","n","m","e","n","t",":"," ">>, ",")

drks_design(design) == searchLazy(lower(design), <<"a","s","s","i","g","n","m","e","n","t",":"," ">>, ".")

anz_design(design) == searchLazy(lower(design), <<"a","s","s","i","g","n","m","e","n","t",":"," ">>, ";")

eu_parallel(design) == contains(lower(design), <<"p","a","r","a","l","l","e","l"," ","g","r","o","u","p",":"," ","y","e","s">>)

eu_crossover(design) == contains(lower(design), <<"c","r","o","s","s"," ","o","v","e","r"," ","g","r","o","u","p",":"," ","y","e","s">>)

jpn_parallel(design) == contains(lower(design), <<"p","a","r","a","l","l","e","l"," ","a","s","s","i","g","n","m","e","n","t">>)

jpn_single(design) == contains(lower(design), <<"s","i","n","g","l","e"," ","a","s","s","i","g","n","m","e","n","t">>)

\* a guessed model: the lower-cased text itself, as the three "assignment: "
\* formats fall back to (what the last lookup of standardizeModel does not do)
modelOrWholeText(design) == Some(lookupOrSelf(model_dict, lower(design)))

\* the model named by a design text that matched none of the formats: the
\* direct lookup of the whole lower-cased text, None when it is no key
modelOfWholeText(design) ==
    IF has(model_dict, lower(design)) THEN Some(get(model_dict, lower(design)))
    ELSE None

standardizeModel(design) ==
    IF ~notnan(design) THEN None
    ELSE IF iran_design(design) # None
    THEN Some(lookupOrSelf(model_dict, lower(iran_design(design)[1])))
    ELSE IF drks_design(design) # None
    THEN Some(lookupOrSelf(model_dict, split(lower(drks_design(design)[1]), <<".">>)[1]))
    ELSE IF anz_design(design) # None
    THEN Some(lookupOrSelf(model_dict, split(lower(anz_design(design)[1]), <<";">>)[1]))
    ELSE IF eu_parallel(design) THEN Some(<<"p","a","r","a","l","l","e","l"," ","a","s","s","i","g","n","m","e","n","t">>)
    ELSE IF eu_crossover(design) THEN Some(<<"c","r","o","s","s","o","v","e","r"," ","a","s","s","i","g","n","m","e","n","t">>)
    ELSE IF jpn_parallel(design) THEN Some(<<"p","a","r","a","l","l","e","l"," ","a","s","s","i","g","n","m","e","n","t">>)
    ELSE IF jpn_single(design) THEN Some(<<"s","i","n","g","l","e"," ","g","r","o","u","p"," ","a","s","s","i","g","n","m","e","n","t">>)
    ELSE modelOfWholeText(design)

\* the phrasings of standardizeAllocation that mean non-randomized, in order
nonRandomized == <<
    <<"a","l","l","o","c","a","t","i","o","n",":"," ","s","i","n","g","l","e"," ","a","r","m"," ","s","t","u","d","y">>,
    <<"r","a","n","d","o","m","i","z","e","d",":"," ","n","o">>,
    <<"r","a","n","d","o","m","i","s","e","d",":"," ","n","o">>,
    <<"n","o","t"," ","r","a","n","d","o","m","i","z","e","d">>,
    <<"n","o","n"," ","r","a","n","d","o","m","i","z","e","d">>,
    <<"n","o","n","-","r","a","n","d","o","m","i","z","e","d">>,
    <<"n","o","t"," ","r","a","n","d","o","m","i","s","e","d">>,
    <<"n","o","n"," ","r","a","n","d","o","m","i","s","e","d">>,
    <<"n","o","n","-","r","a","n","d","o","m","i","s","e","d">> >>

\* an allocation read with the general words tried first (what
\* standardizeAllocation does not do)
allocationGeneralFirst(design_text) ==
    IF notnan(design_text)
    THEN IF contains(lower(design_text), <<"r","a","n","d","o","m","i","s","e","d">>)
            \/ contains(lower(design_text), <<"r","a","n","d","o","m","i","z","e","d">>)
         THEN Some(<<"r","a","n","d","o","m","i","z","e","d">>)
         ELSE IF \E i \in 1..Len(nonRandomized) : contains(lower(design_text), nonRandomized[i])
         THEN Some(<<"n","o","n","-","r","a","n","d","o","m","i","z","e","d">>)
         ELSE None
    ELSE None

standardizeAllocation(design_text) ==
    IF notnan(design_text)
    THEN IF \E i \in 1..Len(nonRandomized) : contains(lower(design_text), nonRandomized[i])
         THEN Some(<<"n","o","n","-","r","a","n","d","o","m","i","z","e","d">>)
         ELSE IF contains(lower(design_text), <<"r","a","n","d","o","m","i","s","e","d">>) THEN Some(<<"r","a","n","d","o","m","i","z","e","d">>)
         ELSE IF contains(lower(design_text), <<"r","a","n","d","o","m","i","z","e","d">>) THEN Some(<<"r","a","n","d","o","m","i","z","e","d">>)
         ELSE None
    ELSE None

purpose_dict == <<
    <<<<"t","r","e","a","t","m","e","n","t">>, <<"t","r","e","a","t","m","e","n","t">>>>,
    <<<<"t","r","e","a","t","m","e","n","t",".">>, <<"t","r","e","a","t","m","e","n","t">>>>,
    <<<<"p","r","e","v","e","n","t","i","o","n">>, <<"p","r","e","v","e","n","t","i","o","n">>>>,
    <<<<"d","i","a","g","n","o","s","t","i","c">>, <<"d","i","a","g","n","o","s","t","i","c">>>>,
    <<<<"d","i","a","g","n","o","s","t","i","c"," ","t","e","s","t"," ","f","o","r"," ","a","c","c","u","r","a","c","y">>, <<"d","i","a","g","n","o","s","t","i","c">>>>,
    <<<<"s","u","p","p","o","r","t","i","v","e">>, <<"s","u","p","p","o","r","t","i","v","e"," ","c","a","r","e">>>>,
    <<<<"s","u","p","p","o","r","t","i","v","e"," ","c","a","r","e">>, <<"s","u","p","p","o","r","t","i","v","e"," ","c","a","r","e">>>>,
    <<<<"s","c","r","e","e","n","i","n","g">>, <<"s","c","r","e","e","n","i","n","g">>>>,
    <<<<"h","e","a","l","t","h"," ","s","e","r","v","i","c","e","s"," ","r","e","s","e","a","r","c","h">>, <<"h","e","a","l","t","h"," ","s","e","r","v","i","c","e","s"," ","r","e","s","e","a","r","c","h">>>>,
    <<<<"h","e","a","l","t","h"," ","s","e","r","v","i","c","e","s"," ","r","e","a","s","e","r","c","h">>, <<"h","e","a","l","t","h"," ","s","e","r","v","i","c","e","s"," ","r","e","s","e","a","r","c","h">>>>,
    <<<<"h","e","a","l","t","h"," ","c","a","r","e"," ","s","y","s","t","e","m">>, <<"h","e","a","l","t","h"," ","s","e","r","v","i","c","e","s"," ","r","e","s","e","a","r","c","h">>>>,
    <<<<"b","a","s","i","c"," ","s","c","i","e","n","c","e">>, <<"b","a","s","i","c"," ","s","c","i","e","n","c","e">>>>,
    <<<<"b","a","s","i","c"," ","s","c","i","e","n","c","e","/","p","h","y","s","i","o","l","o","g","i","c","a","l"," ","s","t","u","d","y">>, <<"b","a","s","i","c"," ","s","c","i","e","n","c","e">>>>,
    <<<<"o","t","h","e","r">>, <<"o","t","h","e","r">>>> >>

standardizePurpose(row) ==
    LET design_str   == row["Study design"]
        anz_purpose  == searchLazy(lower(design_str), <<"p","u","r","p","o","s","e",":"," ">>, ";")
        iran_purpose == searchLazy(lower(design_str), <<"p","u","r","p","o","s","e",":"," ">>, ",")
    IN  IF notnan(design_str)
        THEN IF anz_purpose # None
             THEN Some(lookupOrSelf(purpose_dict, lower(anz_purpose[1])))
             ELSE IF iran_purpose # None
             THEN Some(lookupOrSelf(purpose_dict, lower(iran_purpose[1])))
             ELSE IF has(purpose_dict, lower(design_str))
             THEN Some(get(purpose_dict, lower(design_str)))
             ELSE IF notnan(row["Study type"]) /\ has(purpose_dict, lower(row["Study type"]))
             THEN Some(get(purpose_dict, lower(row["Study type"])))
             ELSE None
        ELSE None

time_dict == <<
    <<<<"c","r","o","s","s","-","s","e","c","t","i","o","n","a","l">>, <<"c","r","o","s","s","-","s","e","c","t","i","o","n","a","l">>>>,
    <<<<"l","o","n","g","i","t","u","d","i","n","a","l">>, <<"l","o","n","g","i","t","u","d","i","n","a","l">>>>,
    <<<<"o","t","h","e","r">>, <<"o","t","h","e","r">>>>,
    <<<<"p","r","o","s","p","e","c","t","i","v","e">>, <<"p","r","o","s","p","e","c","t","i","v","e">>>>,
    <<<<"r","e","t","r","o","s","p","e","c","t","i","v","e">>, <<"r","e","t","r","o","s","p","e","c","t","i","v","e">>>>,
    <<<<"b","o","t","h">>, <<"r","e","t","r","o","s","p","e","c","t","i","v","e","/","p","r","o","s","p","e","c","t","i","v","e">>>>,
    <<<<"r","e","t","r","o","s","p","e","c","t","i","v","e","/","p","r","o","s","p","e","c","t","i","v","e">>, <<"r","e","t","r","o","s","p","e","c","t","i","v","e","/","p","r","o","s","p","e","c","t","i","v","e">>>> >>

standardizeTime(design_str) ==
    LET anz_purpose == searchLazy(lower(design_str), <<"t","i","m","i","n","g",":"," ">>, ";")
    IN  IF notnan(design_str)
        THEN IF anz_purpose # None
             THEN Some(lookupOrSelf(time_dict, lower(anz_purpose[1])))
             ELSE IF contains(lower(design_str), <<"p","r","o","s","p","e","c","t","i","v","e","/","r","e","t","r","o","s","p","e","c","t","i","v","e">>)
             THEN Some(<<"p","r","o","s","p","e","c","t","i","v","e","/","r","e","t","r","o","s","p","e","c","t","i","v","e">>)
             ELSE IF contains(lower(design_str), <<"r","e","t","r","o","s","p","e","c","t","i","v","e">>)
             THEN Some(<<"r","e","t","r","o","s","p","e","c","t","i","v","e">>)
             ELSE IF contains(lower(design_str), <<"p","r","o","s","p","e","c","t","i","v","e">>)
             THEN Some(<<"p","r","o","s","p","e","c","t","i","v","e">>)
             ELSE IF contains(lower(design_str), <<"l","o","n","g","i","t","u","d","i","n","a","l">>)
             THEN Some(<<"l","o","n","g","i","t","u","d","i","n","a","l">>)
             ELSE IF contains(lower(design_str), <<"c","r","o","s","s","-","s","e","c","t","i","o","n","a","l">>)
             THEN Some(<<"c","r","o","s","s","-","s","e","c","t","i","o","n","a","l">>)
             ELSE None
        ELSE None

\* the keys that depend on the phase
designPhase(phase) ==
    ("phase" :> phase)
    @@ (IF phase # None
        THEN "phaseNumber" :> flattenList([i \in 1..Len(phase[1]) |-> getPhaseNumber(phase[1][i])])
        ELSE <<>>)

\* the keys that depend on the design text
designOfText(row) ==
    IF notnan(row["Study design"])
    THEN ("designAllocation" :> standardizeAllocation(row["Study design"]))
         @@ ("designModel" :> (standardizeModel(row["Study design"])
                               \o standardizeTime(row["Study design"])))
         @@ ("designPrimaryPurpose" :> standardizePurpose(row))
         @@ ("studyDesignText" :> row["Study design"])
    ELSE <<>>

getWHODesign(row) ==
    LET phase == standardizePhase(row["Phase"])
    IN  IF ~phase.ok THEN phase
        ELSE Return(("@type" :> <<"S","t","u","d","y","D","e","s","i","g","n">>)
                    @@ ("studyType" :> standardizeType(row["Study type"]))
                    @@ designPhase(phase.v)
                    @@ designOfText(row))

-----------------------------------------------------------------------------
(* status, events, eligibility, authors *)

\* the number an arm entry of "Target size" adds to the targets, if any:
\* the text after the colon of a two-part entry, else the first part
armTarget(target) ==
    IF Len(target) = 2 THEN int(target[2]) ELSE int(target[1])

\* sum(targets) over the entries of the ";"-separated text
enrollmentTarget(targetSize) ==
    LET armTargets == [i \in 1..Len(split(targetSize, <<";">>)) |->
                          split(split(targetSize, <<";">>)[i], <<":">>)]
        parsed     == SelectSeq(armTargets, LAMBDA target : armTarget(target).ok)
    IN  sum([i \in 1..Len(parsed) |-> armTarget(parsed[i]).v])

getWHOStatus(row) ==
    ("@type" :> <<"S","t","u","d","y","S","t","a","t","u","s">>)
    @@ (IF notnan(row["Recruitment Status"])
        THEN "status" :> lower(row["Recruitment Status"]) ELSE <<>>)
    @@ ("statusDate" :> row["dateModified"])
    @@ (IF notnan(row["Target size"]) /\ enrollmentTarget(row["Target size"]) > 0
        THEN ("enrollmentCount" :> enrollmentTarget(row["Target size"]))
             @@ ("enrollmentType" :> <<"a","n","t","i","c","i","p","a","t","e","d">>)
        ELSE <<>>)

StudyEvent(type, date) ==
    ("@type" :> <<"S","t","u","d","y","E","v","e","n","t">>) @@ ("studyEventType" :> type)
    @@ ("studyEventDate" :> date) @@ ("studyEventDateType" :> <<"a","c","t","u","a","l">>)

getWHOEvents(row) ==
    (IF notnan(row["Date enrollement"])
     THEN <<StudyEvent(<<"s","t","a","r","t">>, row["Date enrollement"])>> ELSE <<>>)
    \o (IF notnan(row["results date completed"])
        THEN <<StudyEvent(<<"f","i","r","s","t"," ","s","u","b","m","i","s","s","i","o","n"," ","o","f"," ","r","e","s","u","l","t","s">>, row["results date completed"])>>
        ELSE <<>>)
    \o (IF notnan(row["results date posted"])
        THEN <<StudyEvent(<<"f","i","r","s","t"," ","p","o","s","t","i","n","g"," ","o","f"," ","r","e","s","u","l","t","s">>, row["results date posted"])>>
        ELSE <<>>)

\* the keys the "Inclusion Criteria" branch sets
inclusionKeys(row) ==
    LET criteria == split(row["Inclusion Criteria"], <<"E","x","c","l","u","s","i","o","n"," ","C","r","i","t","e","r","i","a",":">>)
    IN  IF notnan(row["Inclusion Criteria"])
        THEN ("inclusionCriteria" :>
                 <<strip(replace(replace(criteria[1], <<"I","n","c","l","u","s","i","o","n"," ","c","r","i","t","e","r","i","a",":">>, <<>>),
                                 <<"I","n","c","l","u","s","i","o","n"," ","C","r","i","t","e","r","i","a",":">>, <<>>))>>)
             @@ ("exclusionCriteria" :>
                    IF Len(criteria) = 2 THEN <<strip(criteria[2])>> ELSE <<>>)
        ELSE <<>>

\* the entry the "Exclusion Criteria" branch appends
exclusionEntry(row) ==
    strip(replace(replace(row["Exclusion Criteria"], <<"E","x","c","l","u","s","i","o","n"," ","c","r","i","t","e","r","i","a",":">>, <<>>),
                  <<"E","x","c","l","u","s","i","o","n"," ","C","r","i","t","e","r","i","a",":">>, <<>>))

\* the keys copied from the age and gender fields
ageGenderKeys(row) ==
    (IF notnan(row["Inclusion agemin"])
     THEN "minimumAge" :> lower(row["Inclusion agemin"]) ELSE <<>>)
    @@ (IF notnan(row["Inclusion agemax"])
        THEN "maximumAge" :> lower(row["Inclusion agemax"]) ELSE <<>>)
    @@ (IF notnan(row["Inclusion gender"])
        THEN "gender" :> lower(row["Inclusion gender"]) ELSE <<>>)

\* obj["exclusionCriteria"].append(...) raises KeyError when the inclusion
\* branch did not run and so did not create the list
getWHOEligibility(row) ==
    LET obj == ("@type" :> <<"E","l","i","g","i","b","i","l","i","t","y">>) @@ inclusionKeys(row)
    IN  IF notnan(row["Exclusion Criteria"])
        THEN IF "exclusionCriteria" \in DOMAIN obj
             THEN Return(<<[obj EXCEPT !["exclusionCriteria"] = Append(@, exclusionEntry(row))]
                           @@ ageGenderKeys(row)>>)
             ELSE Raise("KeyError")
        ELSE Return(<<obj @@ ageGenderKeys(row)>>)

Person(name, affiliation) ==
    ("@type" :> <<"P","e","r","s","o","n">>) @@ ("name" :> name)
    @@ (IF notnan(affiliation)
        THEN "affiliation" :> <<("@type" :> <<"O","r","g","a","n","i","z","a","t","i","o","n">>) @@ ("name" :> strip(affiliation))>>
        ELSE <<>>)

\* one Person for every piece of re.split(";|\?|,|;", names)
authorList(names, affiliation) ==
    LET author_list == splitAny(names, {";", "?", ","})
    IN  [i \in 1..Len(author_list) |-> Person(strip(author_list[i]), affiliation)]

\* None when the row names no contact
getWHOAuthors(row) ==
    LET affiliation == row["Contact Affiliation"]
    IN  IF notnan(row["Contact Firstname"]) /\ notnan(row["Contact Lastname"])
        THEN Some(<<Person(row["Contact Firstname"] \o <<" ">> \o row["Contact Lastname"],
                           affiliation)>>)
        ELSE IF notnan(row["Contact Firstname"])
        THEN Some(authorList(row["Contact Firstname"], affiliation))
        ELSE IF notnan(row["Contact Lastname"])
        THEN Some(authorList(row["Contact Lastname"], affiliation))
        ELSE None

-----------------------------------------------------------------------------
(* dates: datetime.strptime(x, inputFormat).strftime("%Y-%m-%d") *)

Months == <<<<"j","a","n","u","a","r","y">>, <<"f","e","b","r","u","a","r","y">>, <<"m","a","r","c","h">>, <<"a","p","r","i","l">>, <<"m","a","y">>, <<"j","u","n","e">>, <<"j","u","l","y">>,
            <<"a","u","g","u","s","t">>, <<"s","e","p","t","e","m","b","e","r">>, <<"o","c","t","o","b","e","r">>, <<"n","o","v","e","m","b","e","r">>, <<"d","e","c","e","m","b","e","r">>>>

\* the characters of s from p on that exist, at most n of them
peek(s, p, n) == SubSeq(s, p, IF p + n - 1 <= Len(s) THEN p + n - 1 ELSE Len(s))

\* do the n characters at p exist and satisfy, one by one, the n tests
chars(s, p, tests) ==
    /\ p + Len(tests) - 1 <= Len(s)
    /\ \A i \in 1..Len(tests) : s[p + i - 1] \in tests[i]

D09 == {"0","1","2","3","4","5","6","7","8","9"}

D19 == D09 \ {"0"}

\* the number of whitespace characters at p
spaceRun(s, p) ==
    LET stops == {j \in p..(Len(s) + 1) : j = Len(s) + 1 \/ s[j] \notin Whitespace}
    IN  (CHOOSE j \in stops : \A k \in stops : j <= k) - p

\* the lengths, in the order the regular expression of a directive tries
\* them, of what the directive can match at position p of s
candidates(s, p, directive) ==
    LET two(tests) == IF chars(s, p, tests) THEN <<2>> ELSE <<>>
        one(test)  == IF chars(s, p, <<test>>) THEN <<1>> ELSE <<>>
    IN  CASE directive = "%Y" ->
               IF chars(s, p, <<D09, D09, D09, D09>>) THEN <<4>> ELSE <<>>
          [] directive = "%m" ->
               two(<<{"1"}, {"0","1","2"}>>) \o two(<<{"0"}, D19>>) \o one(D19)
          [] directive = "%d" ->
               two(<<{"3"}, {"0","1"}>>) \o two(<<{"1","2"}, D09>>) \o two(<<{"0"}, D19>>)
               \o one(D19) \o two(<<{" "}, D19>>)
          [] directive = "%H" ->
               two(<<{"2"}, {"0","1","2","3"}>>) \o two(<<{"0","1"}, D09>>) \o one(D09)
          [] directive = "%M" ->
               two(<<{"0","1","2","3","4","5"}, D09>>) \o one(D09)
          [] directive = "%S" ->
               two(<<{"6"}, {"0","1"}>>) \o two(<<{"0","1","2","3","4","5"}, D09>>) \o one(D09)
          [] directive = "%p" ->
               IF lower(peek(s, p, 2)) \in {<<"a","m">>, <<"p","m">>} /\ p + 1 <= Len(s)
               THEN <<2>> ELSE <<>>
          [] directive = "%B" ->
               LET ms == {m \in 1..12 : /\ p + Len(Months[m]) - 1 <= Len(s)
                                        /\ lower(peek(s, p, Len(Months[m]))) = Months[m]}
               IN  IF ms = {} THEN <<>> ELSE <<Len(Months[CHOOSE m \in ms : TRUE])>>
          [] directive = " " ->
               [i \in 1..spaceRun(s, p) |-> spaceRun(s, p) + 1 - i]
          [] OTHER -> one({directive})

RECURSIVE reMatch(_, _, _, _)
RECURSIVE reTry(_, _, _, _, _, _)
\* re.match of the directives format[k..] at position p: None, or the lengths
\* matched by the first alternative, in backtracking order, that succeeds
reMatch(s, format, k, p) ==
    IF k > Len(format) THEN Some(<<>>)
    ELSE reTry(s, format, k, p, candidates(s, p, format[k]), 1)

reTry(s, format, k, p, cs, j) ==
    IF j > Len(cs) THEN None
    ELSE LET rest == reMatch(s, format, k + 1, p + cs[j])
         IN  IF rest # None THEN Some(<<cs[j]>> \o rest[1])
             ELSE reTry(s, format, k, p, cs, j + 1)

leap(year) == (year % 4 = 0 /\ year % 100 # 0) \/ year % 400 = 0

daysInMonth(year, month) ==
    IF month = 2 THEN (IF leap(year) THEN 29 ELSE 28)
    ELSE IF month \in {4, 6, 9, 11} THEN 30 ELSE 31

pad2(n) == <<Digits[(n \div 10) + 1], Digits[(n % 10) + 1]>>

\* the text the k-th directive matched
field(s, lens, k) ==
    LET start == 1 + sum(SubSeq(lens, 1, k - 1))
    IN  SubSeq(s, start, start + lens[k] - 1)

\* the index in format of a directive (0 when the format has none)
indexOf(format, directive) ==
    IF \E k \in 1..Len(format) : format[k] = directive
    THEN CHOOSE k \in 1..Len(format) : format[k] = directive
    ELSE 0

\* the month the match names: %m as a number, %B as a name
monthOf(s, format, lens) ==
    IF indexOf(format, "%m") # 0
    THEN digitsValue(field(s, lens, indexOf(format, "%m")))
    ELSE CHOOSE m \in 1..12 : Months[m] = lower(field(s, lens, indexOf(format, "%B")))

\* formatDate(x, inputFormat): the ISO date, or the exception of strptime: a
\* TypeError for a missing cell, a ValueError when the text does not match
\* the format, when text remains after the match, or when the day is not a
\* day of the month or the second is a leap second.  (The year is printed
\* as it was read: four digits, as strftime prints the years from 1000 on.)
formatDate(x, inputFormat) ==
    LET m     == reMatch(x, inputFormat, 1, 1)
        lens  == m[1]
        year  == digitsValue(field(x, lens, indexOf(inputFormat, "%Y")))
        month == monthOf(x, inputFormat, lens)
        day   == digitsValue(strip(field(x, lens, indexOf(inputFormat, "%d"))))
        sec   == IF indexOf(inputFormat, "%S") = 0 THEN 0
                 ELSE digitsValue(field(x, lens, indexOf(inputFormat, "%S")))
    IN  IF ~notnan(x) THEN Raise("TypeError")
        ELSE IF m = None THEN Raise("ValueError")
        ELSE IF sum(lens) # Len(x) THEN Raise("ValueError")
        ELSE IF year < 1 \/ day > daysInMonth(year, month) \/ sec > 59
        THEN Raise("ValueError")
        ELSE Return(field(x, lens, indexOf(inputFormat, "%Y")) \o <<"-">> \o pad2(month)
                    \o <<"-">> \o pad2(day))

\* the formats getWHOTrials declares for its three date columns
FormatRegistration == <<"%Y", "%m", "%d">>

FormatRefreshed == <<"%d", " ", "%B", " ", "%Y">>

FormatExport == <<"%m", "/", "%d", "/", "%Y", " ", "%H", ":", "%M", ":", "%S", " ", "%p">>

-----------------------------------------------------------------------------
(* registry names, countries, conditions, outcomes *)

source_dict == <<
    <<<<"A","N","Z","C","T","R">>, <<"A","u","s","t","r","a","l","i","a","n"," ","N","e","w"," ","Z","e","a","l","a","n","d"," ","C","l","i","n","i","c","a","l"," ","T","r","i","a","l","s"," ","R","e","g","i","s","t","r","y">>>>,
    <<<<"R","E","B","E","C">>, <<"B","r","a","z","i","l","i","a","n"," ","C","l","i","n","i","c","a","l"," ","T","r","i","a","l","s"," ","R","e","g","i","s","t","r","y">>>>,
    <<<<"C","H","I","C","T","R">>, <<"C","h","i","n","e","s","e"," ","C","l","i","n","i","c","a","l"," ","T","r","i","a","l"," ","R","e","g","i","s","t","e","r">>>>,
    <<<<"C","R","I","S">>, <<"C","l","i","n","i","c","a","l"," ","R","e","s","e","a","r","c","h"," ","I","n","f","o","r","m","a","t","i","o","n"," ","S","e","r","v","i","c","e",","," ","R","e","p","u","b","l","i","c"," ","o","f"," ","K","o","r","e","a">>>>,
    <<<<"C","T","R","I">>, <<"C","l","i","n","i","c","a","l"," ","T","r","i","a","l","s"," ","R","e","g","i","s","t","r","y"," ","-"," ","I","n","d","i","a">>>>,
    <<<<"N","C","T">>, <<"C","l","i","n","i","c","a","l","T","r","i","a","l","s",".","g","o","v">>>>,
    <<<<"R","P","C","E","C">>, <<"C","u","b","a","n"," ","P","u","b","l","i","c"," ","R","e","g","i","s","t","r","y"," ","o","f"," ","C","l","i","n","i","c","a","l"," ","T","r","i","a","l","s">>>>,
    <<<<"E","U","-","C","T","R">>, <<"E","U"," ","C","l","i","n","i","c","a","l"," ","T","r","i","a","l","s"," ","R","e","g","i","s","t","e","r">>>>,
    <<<<"D","R","K","S">>, <<"G","e","r","m","a","n"," ","C","l","i","n","i","c","a","l"," ","T","r","i","a","l","s"," ","R","e","g","i","s","t","e","r">>>>,
    <<<<"I","R","C","T">>, <<"I","r","a","n","i","a","n"," ","R","e","g","i","s","t","r","y"," ","o","f"," ","C","l","i","n","i","c","a","l"," ","T","r","i","a","l","s">>>>,
    <<<<"J","P","R","N">>, <<"J","a","p","a","n"," ","P","r","i","m","a","r","y"," ","R","e","g","i","s","t","r","i","e","s"," ","N","e","t","w","o","r","k">>>>,
    <<<<"P","A","C","T","R">>, <<"P","a","n"," ","A","f","r","i","c","a","n"," ","C","l","i","n","i","c","a","l"," ","T","r","i","a","l"," ","R","e","g","i","s","t","r","y">>>>,
    <<<<"R","E","P","E","C">>, <<"P","e","r","u","v","i","a","n"," ","C","l","i","n","i","c","a","l"," ","T","r","i","a","l","s"," ","R","e","g","i","s","t","r","y">>>>,
    <<<<"S","L","C","T","R">>, <<"S","r","i"," ","L","a","n","k","a"," ","C","l","i","n","i","c","a","l"," ","T","r","i","a","l","s"," ","R","e","g","i","s","t","r","y">>>>,
    <<<<"T","C","T","R">>, <<"T","h","a","i"," ","C","l","i","n","i","c","a","l"," ","T","r","i","a","l","s"," ","R","e","g","i","s","t","e","r">>>>,
    <<<<"L","B","C","T","R">>, <<"L","e","b","a","n","o","n"," ","C","l","i","n","i","c","a","l"," ","T","r","i","a","l","s"," ","R","e","g","i","s","t","r","y">>>>,
    <<<<"N","T","R">>, <<"N","e","t","h","e","r","l","a","n","d","s"," ","T","r","i","a","l"," ","R","e","g","i","s","t","e","r">>>> >>

\* a lookup of the code as it is written, in whatever case (what convertSource
\* does not do)
convertSourceVerbatim(source) ==
    IF notnan(source) /\ has(source_dict, source) THEN get(source_dict, source) ELSE source

\* a missing cell has no upper(): the except branch returns it as it is
convertSource(source) ==
    IF notnan(source) /\ has(source_dict, upper(source))
    THEN get(source_dict, upper(source))
    ELSE source

\* True, False or None
binarize(val) ==
    IF notnan(val)
    THEN IF val \in {<<"y","e","s">>, <<"Y","e","s">>, <<"1">>} THEN Some(TRUE)
         ELSE IF val \in {<<"n","o">>, <<"N","o">>, <<"0">>} THEN Some(FALSE)
         ELSE None
    ELSE None

\* the cells of the named columns that are not missing
listify(row, col_names) ==
    LET present == SelectSeq(col_names, LAMBDA col : notnan(row[col]))
    IN  [i \in 1..Len(present) |-> row[present[i]]]

\* is the trimmed, lower-cased name a key of the country table
knownCountry(input, ctry_dict) == has(ctry_dict, lower(strip(input)))

\* a lookup that returns the trimmed, lower-cased name on a miss (what
\* standardizeCountry does not do)
standardizeCountryTidied(input, ctry_dict) ==
    IF has(ctry_dict, lower(strip(input))) THEN get(ctry_dict, lower(strip(input)))
    ELSE lower(strip(input))

\* on a miss the name is returned as it came (and a line is printed)
standardizeCountry(input, ctry_dict) ==
    IF knownCountry(input, ctry_dict) THEN get(ctry_dict, lower(strip(input)))
    ELSE input

\* the chain of replace() calls that protects the commas inside country names
countryNorm(countryString) ==
    replace(replace(replace(replace(replace(replace(replace(countryString,
        <<"V","i","r","g","i","n"," ","I","s","l","a","n","d","s",","," ","U",".","S",".">>, <<"U","n","i","t","e","d"," ","S","t","a","t","e","s"," ","o","f"," ","A","m","e","r","i","c","a">>),
        <<"V","i","r","g","i","n"," ","I","s","l","a","n","d","s",","," ","B","r","i","t","i","s","h">>, <<"U","n","i","t","e","d"," ","K","i","n","g","d","o","m">>),
        <<"K","o","r","e","a",","," ","N","o","r","t","h">>, <<"N","o","r","t","h"," ","K","o","r","e","a">>),
        <<"K","o","r","e","a",","," ","S","o","u","t","h">>, <<"S","o","u","t","h"," ","K","o","r","e","a">>),
        <<"K","o","r","e","a",","," ","R","e","p","u","b","l","i","c"," ","o","f">>, <<"S","o","u","t","h"," ","K","o","r","e","a">>),
        <<"I","r","a","n",","," ","I","s","l","a","m","i","c"," ","R","e","p","u","b","l","i","c"," ","o","f">>, <<"I","r","a","n">>),
        <<"C","o","n","g","o",","," ">>, <<"S","o","u","t","h"," ","K","o","r","e","a">>)

\* re.split(",|;", countryNorm)
ctries(countryString) == splitAny(countryNorm(countryString), {",", ";"})

\* None for a missing cell, else one Place for every token
splitCountries(countryString, ctry_dict) ==
    IF notnan(countryString)
    THEN Some([i \in 1..Len(ctries(countryString)) |->
                 ("@type" :> <<"P","l","a","c","e">>)
                 @@ ("studyLocationCountry" :>
                        standardizeCountry(ctries(countryString)[i], ctry_dict))])
    ELSE None

\* the lines standardizeCountry prints for the tokens it does not know
countryDiagnostics(countryString, ctry_dict) ==
    IF notnan(countryString)
    THEN LET missed == SelectSeq(ctries(countryString),
                                 LAMBDA c : ~knownCountry(c, ctry_dict))
         IN  [i \in 1..Len(missed) |-> <<"N","o"," ","m","a","t","c","h"," ","f","o","u","n","d"," ","f","o","r"," ","c","o","u","n","t","r","y"," ">> \o missed[i]]
    ELSE <<>>

splitCondition(conditionString) ==
    IF notnan(conditionString)
    THEN LET conditions == [i \in 1..Len(split(conditionString, <<"<","b","r",">">>)) |->
                               split(split(conditionString, <<"<","b","r",">">>)[i], <<";">>)]
             flat_list  == flattenList(conditions)
         IN  Some(SelectSeq([i \in 1..Len(flat_list) |-> strip(flat_list[i])],
                            LAMBDA item : item # <<>>))
    ELSE None

getOutcome(outcome_string) ==
    IF notnan(outcome_string)
    THEN LET outcomes == SelectSeq(split(outcome_string, <<";">>), LAMBDA o : o # <<>>)
         IN  Some([i \in 1..Len(outcomes) |->
                     ("@type" :> <<"O","u","t","c","o","m","e">>) @@ ("outcomeMeasure" :> outcomes[i])
                     @@ ("outcomeType" :> <<"p","r","i","m","a","r","y">>)])
    ELSE None

\* the country table of the run: lower-cased name -> canonical country name
ctry_dict == <<
    <<<<"c","h","i","n","a">>, <<"C","h","i","n","a">>>>,
    <<<<"i","r","a","n">>, <<"I","r","a","n">>>>,
    <<<<"s","o","u","t","h"," ","k","o","r","e","a">>, <<"S","o","u","t","h"," ","K","o","r","e","a">>>>,
    <<<<"u","n","i","t","e","d"," ","s","t","a","t","e","s"," ","o","f"," ","a","m","e","r","i","c","a">>, <<"U","n","i","t","e","d"," ","S","t","a","t","e","s"," ","o","f"," ","A","m","e","r","i","c","a">>>>,
    <<<<"u","n","i","t","e","d"," ","s","t","a","t","e","s">>, <<"U","n","i","t","e","d"," ","S","t","a","t","e","s"," ","o","f"," ","A","m","e","r","i","c","a">>>>,
    <<<<"u","n","i","t","e","d"," ","k","i","n","g","d","o","m">>, <<"U","n","i","t","e","d"," ","K","i","n","g","d","o","m">>>>,
    <<<<"n","o","r","t","h"," ","k","o","r","e","a">>, <<"N","o","r","t","h"," ","K","o","r","e","a">>>> >>

-----------------------------------------------------------------------------
(* arms and interventions *)

\* the length of the match of "Intervention \d+: " at position i of s, or 0
markerAt(s, i) ==
    LET prefix == <<"I","n","t","e","r","v","e","n","t","i","o","n"," ">>
        p      == i + Len(prefix)
        stops  == {j \in p..(Len(s) + 1) : j = Len(s) + 1 \/ ~isDigit(s[j])}
        q      == CHOOSE j \in stops : \A k \in stops : j <= k
    IN  IF matchAt(s, prefix, i) /\ q > p /\ matchAt(s, <<":"," ">>, q)
        THEN q + 2 - i ELSE 0

RECURSIVE subMarkers(_)
\* re.sub("Intervention \d+: ", "****", s)
subMarkers(s) ==
    LET at == {i \in 1..Len(s) : markerAt(s, i) # 0}
    IN  IF at = {} THEN s
        ELSE LET i == CHOOSE a \in at : \A b \in at : a <= b
             IN  SubSeq(s, 1, i - 1) \o <<"*","*","*","*">>
                 \o subMarkers(SubSeq(s, i + markerAt(s, i), Len(s)))

Intervention(fields) == fields @@ ("@type" :> <<"I","n","t","e","r","v","e","n","t","i","o","n">>)

ArmGroup(fields, intervention) ==
    fields @@ ("@type" :> <<"A","r","m","G","r","o","u","p">>) @@ ("intervention" :> <<Intervention(intervention)>>)

\* an arm whose one intervention has the arm's own fields
SelfArm(fields) == ArmGroup(fields, fields)

\* the names longer than one character
longNames(names) == SelectSeq(names, LAMBDA name : Len(name) > 1)

\* ChiCTR: "arm:intervention" pairs separated by ";"
chictrPairs(intervention_text) ==
    LET groups == split(intervention_text, <<";">>)
        names  == [i \in 1..Len(groups) |-> split(groups[i], <<":">>)]
    IN  longNames(names)

\* IRCT and DRKS: the texts between the "Intervention n: " markers
markedNames(intervention_text) == longNames(split(subMarkers(intervention_text), <<"*","*","*","*">>))

\* IRCT: name and description around the first colon of every text; when a
\* text has no colon the IndexError is caught and all become descriptions
irctFields(names) ==
    IF \A i \in 1..Len(names) : Len(split(names[i], <<":">>)) >= 2
    THEN [i \in 1..Len(names) |->
             ("name" :> strip(split(names[i], <<":">>)[1]))
             @@ ("description" :> strip(split(names[i], <<":">>)[2]))]
    ELSE [i \in 1..Len(names) |-> ("description" :> strip(names[i]))]

\* Return(None), Return(Some(list of ArmGroup)) or the exception raised
getArms(row) ==
    LET intervention_text == row["Intervention"]
        id                == upper(row["Source Register"])
    IN  IF ~notnan(row["Source Register"]) THEN Raise("AttributeError")
        ELSE IF ~notnan(intervention_text) THEN Return(None)
        ELSE IF id = <<"C","H","I","C","T","R">>
        THEN Return(Some([i \in 1..Len(chictrPairs(intervention_text)) |->
                 ArmGroup("name" :> strip(chictrPairs(intervention_text)[i][1]),
                          "name" :> strip(chictrPairs(intervention_text)[i][2]))]))
        ELSE IF id = <<"P","A","C","T","R">>
        THEN Return(Some([i \in 1..Len(longNames(split(intervention_text, <<";">>))) |->
                 SelfArm("name" :> strip(longNames(split(intervention_text, <<";">>))[i]))]))
        ELSE IF id = upper(<<"G","e","r","m","a","n"," ","C","l","i","n","i","c","a","l"," ","T","r","i","a","l","s"," ","R","e","g","i","s","t","e","r">>)
        THEN Return(Some([i \in 1..Len(markedNames(intervention_text)) |->
                 SelfArm("name" :> strip(markedNames(intervention_text)[i]))]))
        ELSE IF id = <<"I","R","C","T">>
        THEN Return(Some([i \in 1..Len(markedNames(intervention_text)) |->
                 SelfArm(irctFields(markedNames(intervention_text))[i])]))
        ELSE Return(None)

\* EU-CTR: the "key: value" lines of one block; ValueError when a line has
\* more than one ": " (dict() of a list with a three-part element)
euParsed(intervention) == SelectSeq(intervention, LAMBDA item : contains(item, <<":"," ">>))

euValue(intervention, key) ==
    LET at == {i \in 1..Len(euParsed(intervention)) :
                  split(euParsed(intervention)[i], <<":"," ">>)[1] = key}
    IN  split(euParsed(intervention)[CHOOSE i \in at : \A j \in at : i >= j], <<":"," ">>)[2]

euHas(intervention, key) ==
    \E i \in 1..Len(euParsed(intervention)) :
        split(euParsed(intervention)[i], <<":"," ">>)[1] = key

euIntervention(intervention) ==
    (IF euHas(intervention, <<"T","r","a","d","e"," ","N","a","m","e">>)
     THEN "name" :> euValue(intervention, <<"T","r","a","d","e"," ","N","a","m","e">>)
     ELSE IF euHas(intervention, <<"P","r","o","d","u","c","t"," ","N","a","m","e">>)
     THEN "name" :> euValue(intervention, <<"P","r","o","d","u","c","t"," ","N","a","m","e">>)
     ELSE <<>>)
    @@ (IF euHas(intervention, <<"C","A","S"," ","N","u","m","b","e","r">>)
        THEN "identifier" :> euValue(intervention, <<"C","A","S"," ","N","u","m","b","e","r">>) ELSE <<>>)
    @@ ("description" :> join(intervention, <<"\n">>))
    @@ ("@type" :> <<"I","n","t","e","r","v","e","n","t","i","o","n">>)

\* the blocks of an EU-CTR text whose first line is not a bare newline
euBlocks(intervention_text) ==
    LET groups == split(intervention_text, <<"<","b","r",">","<","b","r",">">>)
    IN  SelectSeq([i \in 1..Len(groups) |-> split(groups[i], <<"<","b","r",">">>)],
                  LAMBDA intervention : intervention[1] # <<"\n">>)

\* Return(None), Return(Some(list of Intervention)) or the exception raised
getInterventions(row) ==
    LET intervention_text == row["Intervention"]
        id                == upper(row["Source Register"])
    IN  IF ~notnan(row["Source Register"]) THEN Raise("AttributeError")
        ELSE IF ~notnan(intervention_text) THEN Return(None)
        ELSE IF id = <<"C","H","I","C","T","R">>
        THEN Return(Some([i \in 1..Len(chictrPairs(intervention_text)) |->
                 Intervention("name" :> strip(chictrPairs(intervention_text)[i][2]))]))
        ELSE IF id = <<"P","A","C","T","R">>
        THEN Return(Some([i \in 1..Len(longNames(split(intervention_text, <<";">>))) |->
                 Intervention("name" :> strip(longNames(split(intervention_text, <<";">>))[i]))]))
        ELSE IF id = upper(<<"E","U"," ","C","l","i","n","i","c","a","l"," ","T","r","i","a","l","s"," ","R","e","g","i","s","t","e","r">>)
        THEN IF \E b \in 1..Len(euBlocks(intervention_text)) :
                   \E i \in 1..Len(euParsed(euBlocks(intervention_text)[b])) :
                       Len(split(euParsed(euBlocks(intervention_text)[b])[i], <<":"," ">>)) # 2
             THEN Raise("ValueError")
             ELSE Return(Some([b \in 1..Len(euBlocks(intervention_text)) |->
                      euIntervention(euBlocks(intervention_text)[b])]))
        ELSE Return(None)

-----------------------------------------------------------------------------
(* getWHOTrials: the columns it adds to the frame, one row at a time *)

COL_NAMES == <<"@type", "_id", "identifier", "identifierSource", "url", "name",
               "alternateName", "abstract", "description", "funding", "author",
               "studyStatus", "studyEvent", "hasResults", "dateCreated", "datePublished",
               "dateModified", "curatedBy", "healthCondition", "keywords",
               "studyDesign", "outcome", "eligibilityCriteria", "isBasedOn", "relatedTo",
               "studyLocation", "armGroup", "interventions", "interventionText">>

\* the field names the uploader asks the schema mapping for (src/upload.py)
MAP_VARS == <<"@type", "abstract", "alternateName", "armGroup", "author", "curatedBy",
              "date", "dateCreated", "dateModified", "datePublished", "description",
              "eligibilityCriteria", "hasResults", "healthCondition", "identifier",
              "identifierSource", "interventions", "interventionText", "isBasedOn",
              "keywords", "name", "outcome", "relatedTo", "funding", "studyDesign",
              "studyEvent", "studyLocation", "studyStatus", "url", "topicCategory">>

\* the registry whose rows are removed before anything is computed
ExcludedRegister == <<"C","l","i","n","i","c","a","l","T","r","i","a","l","s",".","g","o","v">>

\* raw.loc[raw["Source Register"] != "ClinicalTrials.gov", :]
kept(row) == row["Source Register"] # ExcludedRegister

\* date.today() of the run
today == <<"2","0","2","0","-","0","5","-","0","1">>

\* a tidied identifier: the cell of TrialID without the blanks around it, in
\* capitals (what getWHOTrials does not do)
tidiedIdentifier(row) == upper(strip(row["TrialID"]))

\* the identifier a row is given: the cell of TrialID as it was read
trialIdentifier(row) == row["TrialID"]

colIds(row) ==
    Return(("@type" :> <<"C","l","i","n","i","c","a","l","T","r","i","a","l">>)
           @@ ("_id" :> trialIdentifier(row))
           @@ ("identifier" :> trialIdentifier(row))
           @@ ("url" :> row["web address"]))

colIdentifierSource(row) ==
    Return("identifierSource" :> convertSource(row["Source Register"]))

\* x.strip() of a missing title raises
colName(row) ==
    IF notnan(row["Scientific title"])
    THEN Return("name" :> strip(row["Scientific title"]))
    ELSE Raise("AttributeError")

colFunding(row) ==
    Return(("alternateName" :> listify(row, <<"Acronym", "Public title">>))
           @@ ("abstract" :> None) @@ ("description" :> None) @@ ("isBasedOn" :> None)
           @@ ("relatedTo" :> None) @@ ("keywords" :> None)
           @@ ("funding" :> <<"funder" :> <<("@type" :> <<"O","r","g","a","n","i","z","a","t","i","o","n">>)
                                            @@ ("name" :> row["Primary sponsor"])
                                            @@ ("role" :> <<"l","e","a","d"," ","s","p","o","n","s","o","r">>)>>>>))

colHasResults(row) == Return("hasResults" :> binarize(row["results yes no"]))

\* the column a date of the row fills, or the exception formatDate raises
dateColumn(row, date, value(_)) ==
    IF date.ok THEN Return(value(date.v)) ELSE date

colDateCreated(row) ==
    dateColumn(row, formatDate(row["Date registration3"], FormatRegistration),
               LAMBDA d : "dateCreated" :> d)

colDateModified(row) ==
    dateColumn(row, formatDate(row["Last Refreshed on"], FormatRefreshed),
               LAMBDA d : "dateModified" :> d)

colCuratedBy(row) ==
    dateColumn(row, formatDate(row["Export date"], FormatExport),
               LAMBDA d : ("datePublished" :> None)
                          @@ ("curatedBy" :>
                                 (("@type" :> <<"O","r","g","a","n","i","z","a","t","i","o","n">>)
                                  @@ ("name" :> <<"W","H","O"," ","I","n","t","e","r","n","a","t","i","o","n","a","l"," ","C","l","i","n","i","c","a","l"," ","T","r","i","a","l","s"," ","R","e","g","i","s","t","r","y"," ","P","l","a","t","f","o","r","m">>)
                                  @@ ("identifier" :> <<"I","C","T","R","P">>)
                                  @@ ("url" :> <<"h","t","t","p","s",":","/","/","w","w","w",".","w","h","o",".","i","n","t","/","i","c","t","r","p","/","e","n","/">>)
                                  @@ ("versionDate" :> d)
                                  @@ ("curationDate" :> today))))

colStudyLocation(row) ==
    Return("studyLocation" :> splitCountries(row["Countries"], table))

colHealthCondition(row) == Return("healthCondition" :> splitCondition(row["Condition"]))

colStudyStatus(row) == Return("studyStatus" :> getWHOStatus(row))

colStudyEvent(row) == Return("studyEvent" :> getWHOEvents(row))

\* the one-key row a function's result adds, or the exception it raised
resultColumn(name, result) == IF result.ok THEN Return(name :> result.v) ELSE result

colEligibility(row) == resultColumn("eligibilityCriteria", getWHOEligibility(row))

colAuthor(row) == Return("author" :> getWHOAuthors(row))

colStudyDesign(row) == resultColumn("studyDesign", getWHODesign(row))

colArmGroup(row) == resultColumn("armGroup", getArms(row))

colInterventions(row) == resultColumn("interventions", getInterventions(row))

colOutcome(row) ==
    Return(("interventionText" :> row["Intervention"])
           @@ ("outcome" :> getOutcome(row["Primary outcome"])))

-----------------------------------------------------------------------------
(* duplicates and the JSON records *)

\* df.duplicated(subset="_id"): is row i's _id that of an earlier row
duplicated(frame, i) == \E j \in 1..(i - 1) : frame[j]["_id"] = frame[i]["_id"]

\* dupes = df[df.duplicated(subset="_id")]
dupes(frame) ==
    LET idx == SelectSeq([i \in 1..Len(frame) |-> i], LAMBDA i : duplicated(frame, i))
    IN  [k \in 1..Len(idx) |-> frame[idx[k]]]

RECURSIVE str(_)
\* str(n) of a natural number
str(n) == IF n < 10 THEN <<Digits[n + 1]>> ELSE str(n \div 10) \o <<Digits[(n % 10) + 1]>>

\* what print(line) and print(dupes._id) add to the standard output
printed(line) == [print |-> "line", text |-> line]

printedIds(frame) == [print |-> "_id", ids |-> [i \in 1..Len(frame) |-> frame[i]["_id"]]]

\* the lines of the duplicate report; none without duplicates
duplicateReport(frame) ==
    IF Len(dupes(frame)) # 0
    THEN <<printed(<<"\n","\n","\n","E","R","R","O","R",":"," ">> \o str(Len(dupes(frame))) \o <<" ","d","u","p","l","i","c","a","t","e"," ","I","D","s"," ","f","o","u","n","d",":">>),
           printedIds(dupes(frame))>>
    ELSE <<>>

\* the characters to_json writes for a character of a string
escapeChar(c) ==
    IF c \in {"\"", "\\", "/"} THEN <<"\\", c>>
    ELSE IF c = "\n" THEN <<"\\", "n">>
    ELSE IF c = "\t" THEN <<"\\", "t">>
    ELSE IF c = "\r" THEN <<"\\", "r">>
    ELSE <<c>>

escape(s) == flattenList([i \in 1..Len(s) |-> escapeChar(s[i])])

RECURSIVE unescape(_)
\* the string json.loads reads back
unescape(s) ==
    IF Len(s) = 0 THEN <<>>
    ELSE IF s[1] = "\\" /\ Len(s) >= 2
    THEN <<(IF s[2] = "n" THEN "\n" ELSE IF s[2] = "t" THEN "\t"
            ELSE IF s[2] = "r" THEN "\r" ELSE s[2])>> \o unescape(SubSeq(s, 3, Len(s)))
    ELSE <<s[1]>> \o unescape(Tail(s))

\* a cell that holds a string or NaN, as json.loads reads it back: null or
\* the string
jsonText(x) == IF notnan(x) THEN Some(unescape(escape(x))) ELSE None

TextColumns == {"@type", "_id", "identifier", "identifierSource", "url", "name",
                "dateCreated", "dateModified", "interventionText"}

\* the columns whose cells are None or a value
OptionalColumns == {"abstract", "description", "isBasedOn", "relatedTo", "keywords",
                    "datePublished", "hasResults", "author", "studyLocation",
                    "healthCondition", "armGroup", "interventions", "outcome"}

\* the funder's name is the one nested cell that can be NaN
jsonFunding(funding) ==
    [i \in 1..Len(funding) |->
        "funder" :> [j \in 1..Len(funding[i]["funder"]) |->
            [funding[i]["funder"][j] EXCEPT !["name"] = jsonText(@)]]]

\* the value of a column in the record of a row: None is JSON's null
jsonCell(row, col) ==
    IF col \in TextColumns THEN jsonText(row[col])
    ELSE IF col \in OptionalColumns THEN row[col]
    ELSE IF col = "funding" THEN Some(jsonFunding(row[col]))
    ELSE Some(row[col])

\* json.loads(df[col_names].to_json(orient="records")): every record has
\* every column
to_json(frame, col_names) ==
    [i \in 1..Len(frame) |->
        [col \in {col_names[k] : k \in 1..Len(col_names)} |-> jsonCell(frame[i], col)]]

-----------------------------------------------------------------------------
(* input rows *)

\* the columns of the WHO file that getWHOTrials reads
Columns == {"TrialID", "Source Register", "web address", "Scientific title",
            "Acronym", "Public title", "Primary sponsor", "results yes no",
            "Date registration3", "Last Refreshed on", "Export date", "Countries",
            "Condition", "Recruitment Status", "Target size", "Date enrollement",
            "results date completed", "results date posted", "Inclusion Criteria", "Exclusion Criteria",
            "Inclusion agemin", "Inclusion agemax", "Inclusion gender", "Contact Firstname",
            "Contact Lastname", "Contact Affiliation", "Study type", "Phase",
            "Study design", "Intervention", "Primary outcome"}

\* a row in which every cell is missing
EmptyRow == [c \in Columns |-> NaN]

\* the cells of row replaced by those of the function cells
with(row, cells) == [c \in Columns |-> IF c \in DOMAIN cells THEN cells[c] ELSE row[c]]

\* a row with every cell well formed
BaseRow ==
    with(EmptyRow,
         ("TrialID" :> <<"C","h","i","C","T","R","2","0","0","0","0","2","9","9","5","3">>)
         @@ ("Source Register" :> <<"C","h","i","C","T","R">>)
         @@ ("web address" :> <<"h","t","t","p",":","/","/","x",".","o","r","g","/","1">>)
         @@ ("Scientific title" :> <<" ","A"," ","t","r","i","a","l"," ">>)
         @@ ("Public title" :> <<"T","r","i","a","l">>)
         @@ ("Primary sponsor" :> <<"W","H","O">>)
         @@ ("results yes no" :> <<"N","o">>)
         @@ ("Date registration3" :> <<"2","0","2","0","0","4","0","1">>)
         @@ ("Last Refreshed on" :> <<"6"," ","A","p","r","i","l"," ","2","0","2","0">>)
         @@ ("Export date" :> <<"4","/","7","/","2","0","2","0"," ","3",":","0","0",":","1","5"," ","P","M">>)
         @@ ("Countries" :> <<"C","h","i","n","a",";","I","r","a","n",","," ","I","s","l","a","m","i","c"," ","R","e","p","u","b","l","i","c"," ","o","f">>)
         @@ ("Condition" :> <<"C","O","V","I","D","-","1","9">>)
         @@ ("Recruitment Status" :> <<"R","e","c","r","u","i","t","i","n","g">>)
         @@ ("Target size" :> <<"A",":","3","0",";","B",":","2","0">>)
         @@ ("Date enrollement" :> <<"2","0","2","0","-","0","2","-","0","1">>)
         @@ ("Inclusion Criteria" :> <<"I","n","c","l","u","s","i","o","n"," ","c","r","i","t","e","r","i","a",":"," ","a","d","u","l","t"," ","E","x","c","l","u","s","i","o","n"," ","C","r","i","t","e","r","i","a",":"," ","p","r","e","g","n","a","n","t">>)
         @@ ("Inclusion agemin" :> <<"1","8">>)
         @@ ("Inclusion gender" :> <<"B","o","t","h">>)
         @@ ("Contact Firstname" :> <<"A","n","n">>)
         @@ ("Contact Lastname" :> <<"L","e","e">>)
         @@ ("Study type" :> <<"I","n","t","e","r","v","e","n","t","i","o","n","a","l"," ","s","t","u","d","y">>)
         @@ ("Phase" :> <<"P","h","a","s","e"," ","1","/","P","h","a","s","e"," ","2">>)
         @@ ("Study design" :> <<"R","a","n","d","o","m","i","z","e","d",","," ","p","a","r","a","l","l","e","l">>)
         @@ ("Intervention" :> <<"A",":","x",";","B",":","y">>)
         @@ ("Primary outcome" :> <<"m","o","r","t","a","l","i","t","y">>))

\* a row with nothing but the cells getWHOTrials cannot do without
BareRow ==
    with(EmptyRow,
         ("TrialID" :> <<" ","E","U","C","T","R","2","0","2","0","-","0","0","1","5","0","5","/","2","2","-","e","s"," ">>)
         @@ ("Source Register" :> <<"E","U"," ","C","l","i","n","i","c","a","l"," ","T","r","i","a","l","s"," ","R","e","g","i","s","t","e","r">>)
         @@ ("Scientific title" :> <<"T">>)
         @@ ("Date registration3" :> <<"2","0","2","0","1","1","5">>)
         @@ ("Last Refreshed on" :> <<"2","9"," ","f","e","b","r","u","a","r","y"," ","2","0","2","0">>)
         @@ ("Export date" :> <<"1","2","/","3","1","/","2","0","2","0"," ","2","3",":","5","9",":","5","9"," ","a","m">>))

(* the rows of the runs of getWHOTrials *)

ExcludedRow ==
    with(BaseRow, ("TrialID" :> <<"N","C","T","0","4","2","8","0","7","0","5">>) @@ ("Source Register" :> ExcludedRegister))

\* an excluded row none of whose dates has the declared format
ExcludedBadRow ==
    with(ExcludedRow, ("Date registration3" :> <<"2","0","2","0","-","0","4","-","0","1">>)
                      @@ ("Last Refreshed on" :> NaN) @@ ("Export date" :> <<"x">>))

\* a second registration of the identifier of BaseRow
DuplicateRow ==
    with(BaseRow, ("Source Register" :> <<"I","R","C","T">>)
                  @@ ("Intervention" :> <<"I","n","t","e","r","v","e","n","t","i","o","n"," ","1",":"," ","D","r","u","g",":"," ","d","a","i","l","y">>)
                  @@ ("Contact Lastname" :> NaN)
                  @@ ("Countries" :> <<"A","t","l","a","n","t","i","s">>))

BadRegistrationRow ==
    with(BaseRow, ("TrialID" :> <<"P","A","C","T","R","2","0","2","0","0","4">>) @@ ("Source Register" :> <<"P","A","C","T","R">>)
                  @@ ("Date registration3" :> <<"2","0","2","0","-","0","4","-","0","1">>))

BadRefreshedRow ==
    with(BaseRow, ("TrialID" :> <<"D","R","K","S","0","0","0","2","1">>)
                  @@ ("Source Register" :> <<"G","e","r","m","a","n"," ","C","l","i","n","i","c","a","l"," ","T","r","i","a","l","s"," ","R","e","g","i","s","t","e","r">>)
                  @@ ("Last Refreshed on" :> <<"A","p","r","i","l"," ","6",","," ","2","0","2","0">>))

BadExportRow ==
    with(BareRow, ("TrialID" :> <<"I","S","R","C","T","N","5","1">>) @@ ("Source Register" :> <<"I","S","R","C","T","N">>)
                  @@ ("Export date" :> <<"4","/","7","/","2","0","2","0"," ","3",":","0","0",":","1","5">>))

\* exclusion criteria in their own cell and no inclusion criteria
ExclusionOnlyRow ==
    with(BareRow, ("TrialID" :> <<"J","P","R","N","-","1">>) @@ ("Source Register" :> <<"J","P","R","N">>)
                  @@ ("Exclusion Criteria" :> <<"E","x","c","l","u","s","i","o","n"," ","c","r","i","t","e","r","i","a",":"," ","p","r","e","g","n","a","n","t">>))

TrialRows == <<BaseRow, BareRow, ExcludedRow, ExcludedBadRow, DuplicateRow,
               BadRegistrationRow, BadRefreshedRow, BadExportRow, ExclusionOnlyRow>>

\* the most rows a run reads
MaxRows == 2

\* the frames a run can read: up to MaxRows rows, not all of them excluded
\* (what df.apply makes of an empty frame depends on the pandas version)
RawFrames ==
    {f \in UNION {[1..n -> {TrialRows[k] : k \in 1..Len(TrialRows)}] : n \in 1..MaxRows} :
        \E i \in 1..Len(f) : kept(f[i])}


(* the rows of the calls of one function *)

\* the texts made of at most n of the pieces, one after the other
RECURSIVE textsOf(_, _)
textsOf(pieces, n) ==
    IF n = 0 THEN {<<>>}
    ELSE textsOf(pieces, n - 1)
         \cup {t \o p : t \in textsOf(pieces, n - 1), p \in pieces}

PhaseInputs ==
    {NaN, <<"P","h","a","s","e"," ","1","/","P","h","a","s","e"," ","2">>, <<"N","/","A">>, <<"n","/","a">>, <<"P","H","A","S","E"," ","1","/","P","H","A","S","E"," ","2">>, <<"R","e","t","r","o","s","p","e","c","t","i","v","e">>,
     <<"N","o","t"," ","s","e","l","e","c","t","e","d">>, <<"P","h","a","s","e"," ","I","I">>, <<"0">>, <<"I","V">>, <<"2","-","3">>, <<"P","h","a","s","e"," ","5">>, <<"e","a","r","l","y"," ","p","h","a","s","e"," ","1">>,
     <<"H","u","m","a","n"," ","p","h","a","r","m","a","c","o","l","o","g","y"," ","(","P","h","a","s","e"," ","I",")",":"," ","n","o","\n","T","h","e","r","a","p","e","u","t","i","c"," ","e","x","p","l","o","r","a","t","o","r","y"," ","(","P","h","a","s","e"," ","I","I",")",":"," ","y","e","s">>,
     <<"H","u","m","a","n"," ","p","h","a","r","m","a","c","o","l","o","g","y"," ","(","P","h","a","s","e"," ","I",")",":"," ","y","e","s","\n","T","h","e","r","a","p","e","u","t","i","c"," ","u","s","e"," ","(","P","h","a","s","e"," ","I","V",")",":"," ","y","e","s">>,
     <<"H","u","m","a","n"," ","p","h","a","r","m","a","c","o","l","o","g","y"," ","(","P","h","a","s","e"," ","I",")",":"," ","Y","e","s">>,
     <<"H","u","m","a","n"," ","p","h","a","r","m","a","c","o","l","o","g","y"," ","(","P","h","a","s","e"," ","V",")",":"," ","y","e","s">>,
     <<"h","u","m","a","n"," ","p","h","a","r","m","a","c","o","l","o","g","y",":"," ","y","e","s">>}

\* the most pieces of a generated design text
MaxDesignPieces == 3

DesignPieces ==
    {<<"A","s","s","i","g","n","m","e","n","t",":"," ">>, <<"P","a","r","a","l","l","e","l">>, <<"x">>, <<",">>, <<".">>, <<";">>, <<"\n">>}

DesignInputs ==
    textsOf(DesignPieces, MaxDesignPieces)
    \cup {NaN, <<"R","a","n","d","o","m","i","z","e","d",","," ","p","a","r","a","l","l","e","l">>, <<"C","o","h","o","r","t"," ","s","t","u","d","y">>, <<"c","r","o","s","s"," ","o","v","e","r">>, <<"O","t","h","e","r">>,
          <<"P","a","r","a","l","l","e","l"," ","g","r","o","u","p",":"," ","y","e","s">>, <<"C","r","o","s","s"," ","o","v","e","r"," ","g","r","o","u","p",":"," ","y","e","s">>, <<"J","P","R","N"," ","p","a","r","a","l","l","e","l"," ","a","s","s","i","g","n","m","e","n","t">>,
          <<"S","i","n","g","l","e"," ","a","s","s","i","g","n","m","e","n","t">>, <<"N","o","n","-","r","a","n","d","o","m","i","s","e","d",";"," ","P","u","r","p","o","s","e",":"," ","T","r","e","a","t","m","e","n","t",";"," ","T","i","m","i","n","g",":"," ","B","o","t","h",";">>,
          <<"R","a","n","d","o","m","i","s","e","d",":"," ","N","o">>, <<"p","u","r","p","o","s","e",":"," ","s","u","p","p","o","r","t","i","v","e",","," ","p","r","o","s","p","e","c","t","i","v","e","/","r","e","t","r","o","s","p","e","c","t","i","v","e">>,
          <<"T","r","e","a","t","m","e","n","t">>, <<"R","e","t","r","o","s","p","e","c","t","i","v","e"," ","l","o","n","g","i","t","u","d","i","n","a","l">>, <<"c","r","o","s","s","-","s","e","c","t","i","o","n","a","l">>,
          <<"A","s","s","i","g","n","m","e","n","t",":"," ","C","r","o","s","s","o","v","e","r","."," ","P","a","r","a","l","l","e","l"," ","g","r","o","u","p",":"," ","y","e","s",","," ","s","i","n","g","l","e"," ","a","s","s","i","g","n","m","e","n","t">>,
          <<"A","s","s","i","g","n","m","e","n","t",":"," ","F","a","c","t","o","r","i","a","l",";"," ","C","r","o","s","s"," ","o","v","e","r"," ","g","r","o","u","p",":"," ","y","e","s","."," ","P","a","r","a","l","l","e","l"," ","a","s","s","i","g","n","m","e","n","t">>,
          <<"C","r","o","s","s"," ","o","v","e","r"," ","g","r","o","u","p",":"," ","y","e","s",";"," ","P","a","r","a","l","l","e","l"," ","g","r","o","u","p",":"," ","y","e","s",";"," ","s","i","n","g","l","e"," ","a","s","s","i","g","n","m","e","n","t">>}

\* the longest generated "Target size" text
MaxTargetLen == 4

TargetInputs ==
    textsOf({<<"a">>, <<"3">>, <<":">>, <<";">>}, MaxTargetLen)
    \cup {NaN, <<"A","r","m"," ","A",":","3","0",";","A","r","m"," ","B",":","2","0">>, <<"a","b","c",";","d","e","f">>, <<" ","1","2"," ",";","B",":"," ","1","_","0">>, <<"2","0",";","x",":","+","5">>, <<"A",":","B",":","3","0">>,
          <<"-","3">>, <<"a",":","-","3",";","3">>, <<"a",":","-","3",";","b",":","2">>}

\* the most pieces of a generated eligibility text
MaxCriteriaPieces == 3

CriteriaPieces ==
    {<<"I","n","c","l","u","s","i","o","n"," ","c","r","i","t","e","r","i","a",":">>, <<"E","x","c","l","u","s","i","o","n"," ","C","r","i","t","e","r","i","a",":">>, <<" ","a","d","u","l","t"," ">>, <<"p","r","e","g","n","a","n","t">>}

InclusionInputs ==
    textsOf(CriteriaPieces, MaxCriteriaPieces)
    \cup {NaN, <<"I","n","c","l","u","s","i","o","n"," ","c","r","i","t","e","r","i","a",":"," ","a","g","e"," ","1","8","-","6","5"," ","E","x","c","l","u","s","i","o","n"," ","C","r","i","t","e","r","i","a",":"," ","p","r","e","g","n","a","n","t">>,
          <<"I","n","c","l","u","s","i","o","n"," ","C","r","i","t","e","r","i","a",":"," ","a","d","u","l","t","."," ","E","x","c","l","u","s","i","o","n"," ","c","r","i","t","e","r","i","a",":"," ","n","o","n","e">>}

ExclusionInputs ==
    {NaN, <<"E","x","c","l","u","s","i","o","n"," ","c","r","i","t","e","r","i","a",":"," ","p","r","e","g","n","a","n","t">>, <<" ","E","x","c","l","u","s","i","o","n"," ","C","r","i","t","e","r","i","a",":"," "," ","m","i","n","o","r","s"," ">>}

ContactInputs == {NaN, <<"A","n","n">>, <<"A","n","n",";"," ","B","o","b",",","C","y","?","D","i"," ">>}

DateInputs == {NaN, <<"2","0","2","0","-","0","2","-","0","1">>}

\* the rows the functions are called on: BaseRow with the cells one function
\* reads replaced
RowInputs ==
    {with(BaseRow, "Phase" :> p) : p \in PhaseInputs}
    \cup {with(BaseRow, "Study design" :> d) : d \in DesignInputs}
    \cup {with(BaseRow, ("Study design" :> d) @@ ("Study type" :> t)) :
             d \in {NaN, <<"x">>, <<"O","t","h","e","r">>}, t \in {NaN, <<"T","r","e","a","t","m","e","n","t">>, <<"S","c","r","e","e","n","i","n","g">>}}
    \cup {with(BaseRow, "Target size" :> t) : t \in TargetInputs}
    \cup {with(BaseRow, ("Inclusion Criteria" :> i) @@ ("Exclusion Criteria" :> e)) :
             i \in InclusionInputs, e \in ExclusionInputs}
    \cup {with(BaseRow, ("Contact Firstname" :> f) @@ ("Contact Lastname" :> l)
                        @@ ("Contact Affiliation" :> a)) :
             f \in ContactInputs, l \in ContactInputs, a \in {NaN, <<" ","W","H","O"," ">>}}
    \cup {with(BaseRow, ("Date enrollement" :> a) @@ ("results date completed" :> b)
                        @@ ("results date posted" :> c)) :
             a \in DateInputs, b \in DateInputs, c \in DateInputs}
    \cup {BareRow}

-----------------------------------------------------------------------------
(* a run of getWHOTrials *)

Init ==
    /\ raw \in RawFrames
    /\ table = ctry_dict
    /\ df = <<>>
    /\ pc = "read_csv"
    /\ out = None
    /\ stdout = <<>>
    /\ exc = "none"
    /\ fn = "getWHOTrials"
    /\ ret = None

\* raw = pd.read_csv(...); df = raw.loc[raw["Source Register"] != ...].copy()
ReadCsv ==
    /\ pc = "read_csv"
    /\ exc = "none"
    /\ df' = SelectSeq(raw, kept)
    /\ pc' = "_id"
    /\ UNCHANGED <<raw, table, out, stdout, exc, fn, ret>>

\* df[...] = df.apply(f): the columns f gives are added to every row, or
\* the exception of the first row on which f raises leaves the function
Apply(at, next, f(_), prints) ==
    /\ pc = at
    /\ exc = "none"
    /\ LET results == [i \in 1..Len(df) |-> f(df[i])]
           bad     == {i \in 1..Len(df) : ~results[i].ok}
       IN  IF bad = {}
           THEN /\ df' = [i \in 1..Len(df) |-> results[i].v @@ df[i]]
                /\ pc' = next
                /\ stdout' = stdout \o prints
                /\ exc' = exc
           ELSE /\ exc' = results[CHOOSE i \in bad : \A j \in bad : i <= j].e
                /\ UNCHANGED <<df, pc, stdout>>
    /\ UNCHANGED <<raw, table, out, fn, ret>>

SetIds == Apply("_id", "identifierSource", colIds, <<>>)

SetIdentifierSource == Apply("identifierSource", "name", colIdentifierSource, <<>>)

SetName == Apply("name", "funding", colName, <<>>)

SetFunding == Apply("funding", "hasResults", colFunding, <<>>)

SetHasResults == Apply("hasResults", "dateCreated", colHasResults, <<>>)

SetDateCreated == Apply("dateCreated", "dateModified", colDateCreated, <<>>)

SetDateModified == Apply("dateModified", "curatedBy", colDateModified, <<>>)

SetCuratedBy == Apply("curatedBy", "studyLocation", colCuratedBy, <<>>)

\* standardizeCountry prints a line for every country it does not know
SetStudyLocation ==
    Apply("studyLocation", "healthCondition", colStudyLocation,
          flattenList([i \in 1..Len(df) |->
              [k \in 1..Len(countryDiagnostics(df[i]["Countries"], table)) |->
                  printed(countryDiagnostics(df[i]["Countries"], table)[k])]]))

SetHealthCondition == Apply("healthCondition", "studyStatus", colHealthCondition, <<>>)

SetStudyStatus == Apply("studyStatus", "studyEvent", colStudyStatus, <<>>)

SetStudyEvent == Apply("studyEvent", "eligibilityCriteria", colStudyEvent, <<>>)

SetEligibility == Apply("eligibilityCriteria", "author", colEligibility, <<>>)

SetAuthor == Apply("author", "studyDesign", colAuthor, <<>>)

SetStudyDesign == Apply("studyDesign", "armGroup", colStudyDesign, <<>>)

SetArmGroup == Apply("armGroup", "interventions", colArmGroup, <<>>)

SetInterventions == Apply("interventions", "outcome", colInterventions, <<>>)

SetOutcome == Apply("outcome", "duplicated", colOutcome, <<>>)

\* "Double check that the numbers all agree"
CheckDuplicates ==
    /\ pc = "duplicated"
    /\ exc = "none"
    /\ stdout' = stdout \o duplicateReport(df)
    /\ pc' = "to_json"
    /\ UNCHANGED <<raw, table, df, out, exc, fn, ret>>

\* return df[col_names].to_json(orient="records"), read by load_annotations
ReturnJson ==
    /\ pc = "to_json"
    /\ exc = "none"
    /\ out' = Some(to_json(df, COL_NAMES))
    /\ pc' = "done"
    /\ UNCHANGED <<raw, table, df, stdout, exc, fn, ret>>

Next ==
    \/ ReadCsv
    \/ SetIds
    \/ SetIdentifierSource
    \/ SetName
    \/ SetFunding
    \/ SetHasResults
    \/ SetDateCreated
    \/ SetDateModified
    \/ SetCuratedBy
    \/ SetStudyLocation
    \/ SetHealthCondition
    \/ SetStudyStatus
    \/ SetStudyEvent
    \/ SetEligibility
    \/ SetAuthor
    \/ SetStudyDesign
    \/ SetArmGroup
    \/ SetInterventions
    \/ SetOutcome
    \/ CheckDuplicates
    \/ ReturnJson

Spec == Init /\ [][Next]_vars


-----------------------------------------------------------------------------
(* one function of the parser called on one row *)

\* the row as getWHOTrials hands it to the functions it applies after the
\* dates: with the dateModified column set
applied(row) == ("dateModified" :> <<"2","0","2","0","-","0","4","-","0","6">>) @@ row

InitRow ==
    /\ raw \in {<<row>> : row \in RowInputs}
    /\ table = ctry_dict
    /\ df = <<>>
    /\ pc = "call"
    /\ out = None
    /\ stdout = <<>>
    /\ exc = "none"
    /\ fn = "none"
    /\ ret = None

\* the called function returns a value or raises
Call(name, result) ==
    /\ pc = "call"
    /\ fn' = name
    /\ pc' = IF result.ok THEN "returned" ELSE "raised"
    /\ ret' = IF result.ok THEN result.v ELSE None
    /\ exc' = IF result.ok THEN "none" ELSE result.e
    /\ UNCHANGED <<raw, table, df, out, stdout>>

CallGetWHOStatus == Call("getWHOStatus", Return(getWHOStatus(applied(raw[1]))))

CallGetWHOEvents == Call("getWHOEvents", Return(getWHOEvents(applied(raw[1]))))

CallGetWHOEligibility == Call("getWHOEligibility", getWHOEligibility(applied(raw[1])))

CallGetWHOAuthors == Call("getWHOAuthors", Return(getWHOAuthors(applied(raw[1]))))

CallGetWHODesign == Call("getWHODesign", getWHODesign(applied(raw[1])))

CallStandardizeModel ==
    Call("standardizeModel", Return(standardizeModel(raw[1]["Study design"])))

NextRow ==
    \/ CallGetWHOStatus
    \/ CallGetWHOEvents
    \/ CallGetWHOEligibility
    \/ CallGetWHOAuthors
    \/ CallGetWHODesign
    \/ CallStandardizeModel

SpecRow == InitRow /\ [][NextRow]_vars


-----------------------------------------------------------------------------
(* one helper of the parser called on the cells of one row *)

\* the most pieces of a generated "Countries" text
MaxCountryPieces == 3

CountryPieces ==
    {<<"K","o","r","e","a",","," ","N","o","r","t","h">>, <<","," ","S","o","u","t","h">>, <<"C","o","n","g","o",","," ">>, <<"I","r","a","n",","," ","I","s","l","a","m","i","c"," ","R","e","p","u","b","l","i","c"," ","o","f">>,
     <<" ","C","h","i","n","a"," ">>, <<";">>}

CountryInputs ==
    textsOf(CountryPieces, MaxCountryPieces)
    \cup {NaN, <<"V","i","r","g","i","n"," ","I","s","l","a","n","d","s",","," ","U",".","S",".">>, <<"V","i","r","g","i","n"," ","I","s","l","a","n","d","s",","," ","B","r","i","t","i","s","h",";","K","o","r","e","a",","," ","R","e","p","u","b","l","i","c"," ","o","f">>,
          <<"K","o","r","e","a",","," ","S","o","u","t","h",","," ","N","o","r","t","h"," ","M","a","c","e","d","o","n","i","a">>, <<"I","R","A","N">>, <<"A","t","l","a","n","t","i","s">>, <<"U","n","i","t","e","d"," ","S","t","a","t","e","s">>,
          <<"c","h","i","n","a",",","A","t","l","a","n","t","i","s"," ",";"," ","u","n","i","t","e","d"," ","k","i","n","g","d","o","m">>}

\* the country tables of the calls: that of the runs, an empty one and one
\* with a single name
CountryTables == {ctry_dict, <<>>, <<<<<<"a","t","l","a","n","t","i","s">>, <<"A","t","l","a","n","t","i","s"," ","(","s","u","n","k",")">>>>>>}

\* the most pieces of a generated allocation text
MaxAllocationPieces == 3

AllocationPieces ==
    {<<"n","o","n","-">>, <<"N","o","t"," ">>, <<"n","o","n"," ">>, <<"r","a","n","d","o","m","i","z","e","d">>, <<"R","a","n","d","o","m","i","s","e","d">>, <<":"," ","n","o">>,
     <<"A","l","l","o","c","a","t","i","o","n",":"," ","S","i","n","g","l","e"," ","a","r","m"," ","s","t","u","d","y">>}

AllocationInputs ==
    textsOf(AllocationPieces, MaxAllocationPieces)
    \cup {NaN, <<"N","o","n","-","r","a","n","d","o","m","i","z","e","d"," ","c","o","n","t","r","o","l","l","e","d"," ","t","r","i","a","l">>, <<"R","a","n","d","o","m","i","z","e","d",":"," ","N","o",","," ","m","a","s","k","i","n","g",":"," ","n","o","n","e">>,
          <<"R","A","N","D","O","M","I","S","E","D">>, <<"o","p","e","n"," ","l","a","b","e","l">>, <<"r","a","n","d","o","m">>}

SourceInputs ==
    {source_dict[i][1] : i \in 1..Len(source_dict)}
    \cup {lower(source_dict[i][1]) : i \in 1..Len(source_dict)}
    \cup {NaN, <<>>, <<"C","h","i","C","T","R">>, <<"E","u","-","C","t","r">>, <<"I","S","R","C","T","N">>, <<" ","N","C","T">>, <<"C","l","i","n","i","c","a","l","T","r","i","a","l","s",".","g","o","v">>,
          <<"G","e","r","m","a","n"," ","C","l","i","n","i","c","a","l"," ","T","r","i","a","l","s"," ","R","e","g","i","s","t","e","r">>, <<"E","U"," ","C","l","i","n","i","c","a","l"," ","T","r","i","a","l","s"," ","R","e","g","i","s","t","e","r">>}

RegisterInputs ==
    {<<"C","h","i","C","T","R">>, <<"P","A","C","T","R">>, <<"G","e","r","m","a","n"," ","C","l","i","n","i","c","a","l"," ","T","r","i","a","l","s"," ","R","e","g","i","s","t","e","r">>, <<"I","R","C","T">>, <<"i","r","c","t">>,
     <<"E","U"," ","C","l","i","n","i","c","a","l"," ","T","r","i","a","l","s"," ","R","e","g","i","s","t","e","r">>, <<"J","P","R","N">>, <<"D","R","K","S">>}

InterventionInputs ==
    {NaN, <<"A",":","x",";","B",":","y">>, <<"a",";","b","c",";",";","d",":","e">>, <<"x">>,
     <<"I","n","t","e","r","v","e","n","t","i","o","n"," ","1",":"," ","D","r","u","g",":"," ","d","a","i","l","y"," ","I","n","t","e","r","v","e","n","t","i","o","n"," ","2",":"," ","P","l","a","c","e","b","o",":"," ","n","o","n","e">>,
     <<"I","n","t","e","r","v","e","n","t","i","o","n"," ","1",":"," ","r","e","s","t","."," ","I","n","t","e","r","v","e","n","t","i","o","n"," ","2","2",":"," ","D","r","u","g",":"," ","d","a","i","l","y">>,
     <<"P","r","o","d","u","c","t"," ","N","a","m","e",":"," ","X","<","b","r",">","C","A","S"," ","N","u","m","b","e","r",":"," ","1","<","b","r",">","<","b","r",">","T","r","a","d","e"," ","N","a","m","e",":"," ","Y","<","b","r",">","t","e","x","t">>,
     <<"<","b","r",">","<","b","r",">","\n","<","b","r",">","P","r","o","d","u","c","t"," ","N","a","m","e",":"," ","X">>}

\* the rows the helpers are called on, each with a country table
CellInputs ==
    {<<with(BaseRow, "Countries" :> c), t>> : c \in CountryInputs, t \in CountryTables}
    \cup {<<with(BaseRow, "Study design" :> d), ctry_dict>> : d \in AllocationInputs}
    \cup {<<with(BaseRow, "Source Register" :> s), ctry_dict>> : s \in SourceInputs}
    \cup {<<with(BaseRow, ("Source Register" :> s) @@ ("Intervention" :> i)), ctry_dict>> :
             s \in RegisterInputs, i \in InterventionInputs}

InitCell ==
    /\ \E input \in CellInputs : raw = <<input[1]>> /\ table = input[2]
    /\ df = <<>>
    /\ pc = "call"
    /\ out = None
    /\ stdout = <<>>
    /\ exc = "none"
    /\ fn = "none"
    /\ ret = None

\* the called function prints its lines and returns a value
CallPrinting(name, value, lines) ==
    /\ pc = "call"
    /\ fn' = name
    /\ pc' = "returned"
    /\ ret' = value
    /\ stdout' = stdout \o [i \in 1..Len(lines) |-> printed(lines[i])]
    /\ UNCHANGED <<raw, table, df, out, exc>>

CallConvertSource == Call("convertSource", Return(convertSource(raw[1]["Source Register"])))

\* standardizeCountry is called on texts only (the tokens of splitCountries)
CallStandardizeCountry ==
    /\ notnan(raw[1]["Countries"])
    /\ CallPrinting("standardizeCountry", standardizeCountry(raw[1]["Countries"], table),
                    IF knownCountry(raw[1]["Countries"], table) THEN <<>>
                    ELSE <<<<"N","o"," ","m","a","t","c","h"," ","f","o","u","n","d"," ","f","o","r"," ","c","o","u","n","t","r","y"," ">> \o raw[1]["Countries"]>>)

CallSplitCountries ==
    CallPrinting("splitCountries", splitCountries(raw[1]["Countries"], table),
                 countryDiagnostics(raw[1]["Countries"], table))

CallStandardizeAllocation ==
    Call("standardizeAllocation", Return(standardizeAllocation(raw[1]["Study design"])))

CallGetArms == Call("getArms", getArms(applied(raw[1])))

CallGetInterventions == Call("getInterventions", getInterventions(applied(raw[1])))

NextCell ==
    \/ CallConvertSource
    \/ CallStandardizeCountry
    \/ CallSplitCountries
    \/ CallStandardizeAllocation
    \/ CallGetArms
    \/ CallGetInterventions

SpecCell == InitCell /\ [][NextCell]_vars


-----------------------------------------------------------------------------
(* the claims about one function (checked under SpecRow) *)

\* the row the function was called on
arg == raw[1]

\* has the named function returned
returned(name) == fn = name /\ pc = "returned"

\* C1: getWHODesign gives the Phase "Phase 1/Phase 2" the phase
\* ["phase 1","phase 2"] and the phaseNumber [1,2], and the Phase "N/A" the
\* phase ["not applicable"] and no numeric phase (no phaseNumber, or one
\* with no entry at all); the lookup does not depend on the case of the
\* text, and phaseNumber is computed from the labels of phase.
C1_PhaseNormalization ==
    returned("getWHODesign") =>
        /\ arg["Phase"] = <<"P","h","a","s","e"," ","1","/","P","h","a","s","e"," ","2">> =>
              /\ ret["phase"] = Some(<<<<"p","h","a","s","e"," ","1">>, <<"p","h","a","s","e"," ","2">>>>)
              /\ "phaseNumber" \in DOMAIN ret
              /\ ret["phaseNumber"] = <<Some(1), Some(2)>>
        /\ arg["Phase"] = <<"N","/","A">> =>
              /\ ret["phase"] = Some(<<<<"n","o","t"," ","a","p","p","l","i","c","a","b","l","e">>>>)
              /\ "phaseNumber" \in DOMAIN ret => ret["phaseNumber"] = <<>>
        /\ (notnan(arg["Phase"]) /\ ~contains(lower(arg["Phase"]), <<"h","u","m","a","n"," ","p","h","a","r","m","a","c","o","l","o","g","y">>)) =>
              /\ getWHODesign(applied(with(arg, "Phase" :> lower(arg["Phase"])))) = Return(ret)
              /\ getWHODesign(applied(with(arg, "Phase" :> upper(arg["Phase"])))) = Return(ret)
        /\ ret["phase"] # None =>
              ret["phaseNumber"] = flattenList([i \in 1..Len(ret["phase"][1]) |->
                                                  getPhaseNumber(ret["phase"][1][i])])

\* the number the claim C3 has an arm entry add: the integer after the arm
\* label (after the last colon), or the integer the entry is when it has no
\* colon
claimedTarget(entry) ==
    LET parts == split(entry, <<":">>) IN int(parts[Len(parts)])

claimedTotal(targetSize) ==
    LET entries == SelectSeq(split(targetSize, <<";">>), LAMBDA e : claimedTarget(e).ok)
    IN  sum([i \in 1..Len(entries) |-> claimedTarget(entries[i]).v])

\* C3: for every "Target size" text the status has enrollmentCount = the sum
\* of the parseable trailing or bare integers of its ";"-separated entries
\* and enrollmentType = "anticipated" exactly when that sum is > 0, and
\* neither field otherwise.
C3_EnrollmentAggregation ==
    (returned("getWHOStatus") /\ notnan(arg["Target size"])) =>
        IF claimedTotal(arg["Target size"]) > 0
        THEN /\ {"enrollmentCount", "enrollmentType"} \subseteq DOMAIN ret
             /\ ret["enrollmentCount"] = claimedTotal(arg["Target size"])
             /\ ret["enrollmentType"] = <<"a","n","t","i","c","i","p","a","t","e","d">>
        ELSE {"enrollmentCount", "enrollmentType"} \cap DOMAIN ret = {}

\* the literal marker of the inclusion text
Marker == <<"E","x","c","l","u","s","i","o","n"," ","C","r","i","t","e","r","i","a",":">>

\* a text without the two spellings of a label, trimmed
unlabelled(text, label1, label2) == strip(replace(replace(text, label1, <<>>), label2, <<>>))

\* C4: when "Inclusion Criteria" is present, the text before the marker
\* "Exclusion Criteria:" (label removed, trimmed) is the one entry of
\* inclusionCriteria, and when a segment follows the marker that segment
\* (trimmed; the text up to the next marker, or all the text after the first
\* marker) is the first entry of exclusionCriteria, also when the marker
\* occurs more than once.
C4_EligibilitySplit ==
    (returned("getWHOEligibility") /\ notnan(arg["Inclusion Criteria"])) =>
        LET text == arg["Inclusion Criteria"]
            at   == find(text, Marker)
        IN  /\ ret[1]["inclusionCriteria"] =
                  <<unlabelled(IF at = 0 THEN text ELSE SubSeq(text, 1, at - 1),
                               <<"I","n","c","l","u","s","i","o","n"," ","c","r","i","t","e","r","i","a",":">>, <<"I","n","c","l","u","s","i","o","n"," ","C","r","i","t","e","r","i","a",":">>)>>
            /\ at # 0 =>
                  /\ Len(ret[1]["exclusionCriteria"]) >= 1
                  /\ ret[1]["exclusionCriteria"][1] \in
                        {strip(split(text, Marker)[2]),
                         strip(SubSeq(text, at + Len(Marker), Len(text)))}

\* C5: getWHOEligibility never raises, whichever of the two criteria cells
\* are present, and the text of "Exclusion Criteria" without its label is the
\* last entry of exclusionCriteria.
C5_EligibilityAnyBranchOrder ==
    fn = "getWHOEligibility" =>
        /\ pc = "returned"
        /\ notnan(arg["Exclusion Criteria"]) =>
              /\ "exclusionCriteria" \in DOMAIN ret[1]
              /\ Len(ret[1]["exclusionCriteria"]) >= 1
              /\ ret[1]["exclusionCriteria"][Len(ret[1]["exclusionCriteria"])] =
                    unlabelled(arg["Exclusion Criteria"],
                               <<"E","x","c","l","u","s","i","o","n"," ","c","r","i","t","e","r","i","a",":">>, <<"E","x","c","l","u","s","i","o","n"," ","C","r","i","t","e","r","i","a",":">>)

\* does the design text match none of the five formats standardizeModel
\* extracts a model from
noModelPattern(design) ==
    /\ iran_design(design) = None
    /\ drks_design(design) = None
    /\ anz_design(design) = None
    /\ ~eu_parallel(design) /\ ~eu_crossover(design)
    /\ ~jpn_parallel(design) /\ ~jpn_single(design)

\* a design text, or a missing one, that names no model
namesNoModel(design) ==
    ~notnan(design) \/ (noModelPattern(design) /\ ~has(model_dict, lower(design)))

\* C10: for a design text (or a missing one) that matches none of the five
\* patterns and is no key of the lookup table, standardizeModel returns None
\* and does not raise, and the designModel of getWHODesign has no model
\* entry: it is absent for a missing text and else holds nothing but the
\* time perspective, if the text has one.
C10_NoPatternNoModel ==
    namesNoModel(arg["Study design"]) =>
        /\ fn = "standardizeModel" => (pc = "returned" /\ ret = None)
        /\ returned("getWHODesign") =>
              IF notnan(arg["Study design"])
              THEN ret["designModel"] = standardizeTime(arg["Study design"])
              ELSE "designModel" \notin DOMAIN ret

\* C10 witness: standardizeModel and getWHODesign have been called on a text
\* that starts an "assignment: " clause no format ends and that is no key
C10_Witness ==
    /\ returned("getWHODesign")
    /\ notnan(arg["Study design"])
    /\ contains(lower(arg["Study design"]), <<"a","s","s","i","g","n","m","e","n","t",":"," ","x">>)
    /\ namesNoModel(arg["Study design"])
    /\ ret["designModel"] = <<>>

\* the canonical values of the lookup table of standardizeModel
canonicalModels == {model_dict[i][2] : i \in 1..Len(model_dict)}

\* a token normalized through the lookup table, as the claim C17 has it: the
\* value of its key, and no model for a token that is no key
normalized(token) == IF has(model_dict, token) THEN Some(get(model_dict, token)) ELSE None

\* the model the claim C17 has the cascade give: that of the first format,
\* in the fixed order, that matches the lower-cased text
claimedModel(design) ==
    IF iran_design(design) # None THEN normalized(iran_design(design)[1])
    ELSE IF drks_design(design) # None
    THEN normalized(split(drks_design(design)[1], <<".">>)[1])
    ELSE IF anz_design(design) # None
    THEN normalized(split(anz_design(design)[1], <<";">>)[1])
    ELSE IF eu_parallel(design) THEN Some(<<"p","a","r","a","l","l","e","l"," ","a","s","s","i","g","n","m","e","n","t">>)
    ELSE IF eu_crossover(design) THEN Some(<<"c","r","o","s","s","o","v","e","r"," ","a","s","s","i","g","n","m","e","n","t">>)
    ELSE IF jpn_parallel(design) THEN Some(<<"p","a","r","a","l","l","e","l"," ","a","s","s","i","g","n","m","e","n","t">>)
    ELSE IF jpn_single(design) THEN Some(<<"s","i","n","g","l","e"," ","g","r","o","u","p"," ","a","s","s","i","g","n","m","e","n","t">>)
    ELSE normalized(lower(design))

\* C17: standardizeModel is a cascade in the order Iranian "assignment: X,",
\* German "assignment: X.", Australian "assignment: X;", the EU literals,
\* the Japanese literals, the whole text: the first format that matches the
\* lower-cased text gives the result, its token normalized through the
\* lookup table, so that every model returned is a canonical value of the
\* table or no model.
C17_FirstMatchCascade ==
    (returned("standardizeModel") /\ notnan(arg["Study design"])) =>
        /\ ret = claimedModel(arg["Study design"])
        /\ ret # None => ret[1] \in canonicalModels


-----------------------------------------------------------------------------
(* the claims about a run of getWHOTrials (checked under Spec) *)

\* the rows of the file that are not of the excluded register, in order
rows == SelectSeq(raw, kept)

\* the documents load_annotations yields
docs == IF out = None THEN <<>> ELSE out[1]

\* has the run returned its documents
done == pc = "done"

\* is a key absent from a document: not there at all, as the claims mean it
absent(doc, key) == key \notin DOMAIN doc

\* a row with no "Target size", no event date and no author cell
noOptionalCells(row) ==
    \A c \in {"Target size", "Date enrollement", "results date completed",
              "results date posted", "Contact Firstname", "Contact Lastname"} :
        ~notnan(row[c])

\* C2: the document of a row with no "Target size", no event date and no
\* author cell has no enrollment field, no studyEvent key and no author key:
\* none of them is there with an empty list, an empty object or a null.
C2_AbsentOptionalKeys ==
    done =>
        \A i \in 1..Len(docs) :
            noOptionalCells(rows[i]) =>
                /\ absent(docs[i], "studyEvent")
                /\ absent(docs[i], "author")
                /\ absent(docs[i], "enrollmentCount")
                /\ absent(docs[i], "enrollmentType")
                /\ docs[i]["studyStatus"] # None =>
                      /\ absent(docs[i]["studyStatus"][1], "enrollmentCount")
                      /\ absent(docs[i]["studyStatus"][1], "enrollmentType")

\* the steps of getWHOTrials that format a date of every row
DateSteps == {"dateCreated", "dateModified", "curatedBy"}

\* the date cells of a row that do not have the format they are read with
badDates(row) ==
    {c \in {"Date registration3", "Last Refreshed on", "Export date"} :
        ~formatDate(row[c], CASE c = "Date registration3" -> FormatRegistration
                              [] c = "Last Refreshed on" -> FormatRefreshed
                              [] OTHER -> FormatExport).ok}

\* the key of the document a date cell fills
dateKey(c) ==
    CASE c = "Date registration3" -> "dateCreated"
      [] c = "Last Refreshed on" -> "dateModified"
      [] OTHER -> "curatedBy"

\* C6: when a date cell of a row (Date registration3, Last Refreshed on or
\* Export date) does not match its input format, no date step of
\* getWHOTrials raises, and the run returns one document for every row that
\* is not excluded, the date field of the failing row being absent and a
\* line about that row being printed.
C6_DateFailureNeverAborts ==
    (\E i \in 1..Len(rows) : badDates(rows[i]) # {}) =>
        /\ ~(exc # "none" /\ pc \in DateSteps)
        /\ done =>
              /\ Len(docs) = Len(rows)
              /\ \A i \in 1..Len(rows) : \A c \in badDates(rows[i]) :
                    /\ docs[i][dateKey(c)] = None
                    /\ \E k \in 1..Len(stdout) :
                          /\ stdout[k].print = "line"
                          /\ contains(stdout[k].text, rows[i]["TrialID"])

\* the count of duplicates the claim C7 has reported: the rows that are not
\* excluded minus their distinct TrialIDs
claimedDuplicates == Len(rows) - Cardinality({rows[i]["TrialID"] : i \in 1..Len(rows)})

\* the lines of the standard output that count duplicates
duplicateLines ==
    SelectSeq(stdout, LAMBDA p : p.print = "line" /\ contains(p.text, <<"d","u","p","l","i","c","a","t","e"," ","I","D","s"," ","f","o","u","n","d">>))

\* one document per row that is not excluded, and the claimed report
allReported ==
    /\ Len(docs) = Len(rows)
    /\ IF claimedDuplicates > 0
       THEN duplicateLines = <<printed(<<"\n","\n","\n","E","R","R","O","R",":"," ">> \o str(claimedDuplicates)
                                       \o <<" ","d","u","p","l","i","c","a","t","e"," ","I","D","s"," ","f","o","u","n","d",":">>)>>
       ELSE duplicateLines = <<>>

\* C7: for every file, getWHOTrials returns (it does not raise), with one
\* document per row that is not excluded, also for rows that share a
\* TrialID, and the duplicate count it prints is the number of those rows
\* minus the number of their distinct TrialIDs; it prints no duplicate line
\* when no TrialID is shared.
C7_DuplicatesReportedNotRemoved ==
    /\ exc = "none"
    /\ done => allReported

\* C8: no row of the excluded register reaches a field normalizer or has a
\* document, and every other row yields a document: the frame the
\* normalizers work on is the other rows, in order, the run does not raise,
\* and it returns one document for each of them, made of that row.
C8_ExcludedRegisterFilter ==
    /\ pc # "read_csv" =>
          /\ Len(df) = Len(rows)
          /\ \A i \in 1..Len(df) :
                /\ df[i]["Source Register"] # ExcludedRegister
                /\ \A c \in Columns : df[i][c] = rows[i][c]
    /\ exc = "none"
    /\ done =>
          /\ Len(docs) = Len(rows)
          /\ \A i \in 1..Len(docs) :
                /\ rows[i]["Source Register"] # ExcludedRegister
                /\ docs[i]["identifierSource"] = Some(convertSource(rows[i]["Source Register"]))
                /\ docs[i]["url"] = jsonText(rows[i]["web address"])

\* C9: the identifier and the _id a row is given, and those of its document,
\* are the cell of TrialID as it was read: not trimmed, not in another case,
\* not changed in any other way, whatever the other cells of the row hold.
C9_IdentifierUnmodified ==
    /\ pc \notin {"read_csv", "_id"} =>
          \A i \in 1..Len(df) :
              /\ df[i]["identifier"] = rows[i]["TrialID"]
              /\ df[i]["_id"] = rows[i]["TrialID"]
    /\ done =>
          /\ Len(docs) = Len(rows)
          /\ \A i \in 1..Len(docs) :
                /\ docs[i]["identifier"] = Some(rows[i]["TrialID"])
                /\ docs[i]["_id"] = Some(rows[i]["TrialID"])

\* C9 witness: the run has returned the document of a row whose TrialID has
\* blanks around it, a slash and small letters, with that very identifier
C9_Witness ==
    /\ done
    /\ \E i \in 1..Len(docs) :
          /\ rows[i]["TrialID"] = <<" ","E","U","C","T","R","2","0","2","0","-","0","0","1","5","0","5","/","2","2","-","e","s"," ">>
          /\ docs[i]["identifier"] = Some(<<" ","E","U","C","T","R","2","0","2","0","-","0","0","1","5","0","5","/","2","2","-","e","s"," ">>)
          /\ docs[i]["_id"] = Some(<<" ","E","U","C","T","R","2","0","2","0","-","0","0","1","5","0","5","/","2","2","-","e","s"," ">>)
          /\ rows[i]["TrialID"] # upper(strip(rows[i]["TrialID"]))

\* the allow-list of the uploader, as a set
allowList == {MAP_VARS[k] : k \in 1..Len(MAP_VARS)}

\* C14: every top-level key of every document getWHOTrials returns is a
\* field name of the allow-list MAP_VARS of the uploader.
C14_KeysInAllowList ==
    done => \A i \in 1..Len(docs) : DOMAIN docs[i] \subseteq allowList


-----------------------------------------------------------------------------
(* the claims about the helpers (checked under SpecCell) *)

\* the tokens of a country text after the chain of substitutions has been
\* applied n times
RECURSIVE substituted(_, _)
substituted(text, n) == IF n = 0 THEN text ELSE countryNorm(substituted(text, n - 1))

tokensAfter(text, n) == splitAny(substituted(text, n), {",", ";"})

\* C11: for every country text, the chain of substitutions of splitCountries
\* applied twice and split on "," or ";" gives the tokens the chain applied
\* once gives, which are the tokens splitCountries makes its places of.
C11_SubstitutionIdempotent ==
    (returned("splitCountries") /\ notnan(arg["Countries"])) =>
        /\ Len(ret[1]) = Len(tokensAfter(arg["Countries"], 1))
        /\ tokensAfter(arg["Countries"], 2) = tokensAfter(arg["Countries"], 1)

\* the four registers whose intervention text the claim C12 has parsed into
\* arms and interventions, and the one parsed into interventions only
FourRegisters ==
    {<<"C","H","I","C","T","R">>, <<"P","A","C","T","R">>, <<"G","E","R","M","A","N"," ","C","L","I","N","I","C","A","L"," ","T","R","I","A","L","S"," ","R","E","G","I","S","T","E","R">>, <<"I","R","C","T">>}

InterventionsOnly == {<<"E","U"," ","C","L","I","N","I","C","A","L"," ","T","R","I","A","L","S"," ","R","E","G","I","S","T","E","R">>}

\* the outcome of the call the state is the end of
outcome == IF pc = "returned" THEN Return(ret) ELSE Raise(exc)

\* what getArms and getInterventions make of the row: one of them has been
\* called, the other is computed
armsOfRow == IF fn = "getArms" THEN outcome ELSE getArms(applied(arg))

interventionsOfRow ==
    IF fn = "getInterventions" THEN outcome ELSE getInterventions(applied(arg))

\* a returned list whose entries all carry the tag
listTagged(result, tag) ==
    /\ result.ok
    /\ result.v # None
    /\ \A i \in 1..Len(result.v[1]) : result.v[1][i]["@type"] = tag

\* C12: for a row of one of the four registers with an intervention text,
\* getArms and getInterventions both return a list, of one length, of
\* entries tagged "ArmGroup" and "Intervention"; for a row of another
\* register (but for the interventions of the fifth, EU format) or without
\* intervention text both return None.
C12_ArmsInterventionsParallel ==
    fn \in {"getArms", "getInterventions"} =>
        IF upper(arg["Source Register"]) \in FourRegisters /\ notnan(arg["Intervention"])
        THEN /\ listTagged(armsOfRow, <<"A","r","m","G","r","o","u","p">>)
             /\ listTagged(interventionsOfRow, <<"I","n","t","e","r","v","e","n","t","i","o","n">>)
             /\ Len(armsOfRow.v[1]) = Len(interventionsOfRow.v[1])
        ELSE /\ armsOfRow = Return(None)
             /\ upper(arg["Source Register"]) \notin InterventionsOnly =>
                   interventionsOfRow = Return(None)

\* the phrasings the claim C13 lists for a trial that is not randomized
NonRandomizedPhrasings ==
    {<<"a","l","l","o","c","a","t","i","o","n",":"," ","s","i","n","g","l","e"," ","a","r","m"," ","s","t","u","d","y">>, <<"r","a","n","d","o","m","i","z","e","d",":"," ","n","o">>, <<"r","a","n","d","o","m","i","s","e","d",":"," ","n","o">>}
    \cup {prefix \o word : prefix \in {<<"n","o","t"," ">>, <<"n","o","n"," ">>, <<"n","o","n","-">>},
                           word \in {<<"r","a","n","d","o","m","i","z","e","d">>, <<"r","a","n","d","o","m","i","s","e","d">>}}

saysRandomized(text) == contains(text, <<"r","a","n","d","o","m","i","z","e","d">>) \/ contains(text, <<"r","a","n","d","o","m","i","s","e","d">>)

saysNonRandomized(text) == \E phrasing \in NonRandomizedPhrasings : contains(text, phrasing)

\* C13: standardizeAllocation gives "non-randomized" for every design text
\* whose lower-cased form contains one of the phrasings, also when it
\* contains "randomized" or "randomised"; "randomized" for a text that
\* contains one of these two words and none of the phrasings; and None for
\* a text that contains neither.
C13_AllocationPrecedence ==
    (returned("standardizeAllocation") /\ notnan(arg["Study design"])) =>
        LET text == lower(arg["Study design"])
        IN  ret = IF saysNonRandomized(text) THEN Some(<<"n","o","n","-","r","a","n","d","o","m","i","z","e","d">>)
                  ELSE IF saysRandomized(text) THEN Some(<<"r","a","n","d","o","m","i","z","e","d">>)
                  ELSE None

\* C13 witness: standardizeAllocation has returned "non-randomized" for a
\* text that holds a phrasing with the word "randomised" in it
C13_Witness ==
    /\ returned("standardizeAllocation")
    /\ notnan(arg["Study design"])
    /\ contains(lower(arg["Study design"]), <<"n","o","n","-","r","a","n","d","o","m","i","s","e","d">>)
    /\ saysRandomized(lower(arg["Study design"]))
    /\ ret = Some(<<"n","o","n","-","r","a","n","d","o","m","i","z","e","d">>)

\* the entries of the register table whose key is the upper-cased code
entriesFor(source) == {i \in 1..Len(source_dict) : source_dict[i][1] = upper(source)}

\* C15: convertSource returns for every input and raises nothing and prints
\* nothing: a code that is a key of the table once upper-cased gives the
\* full register name of that key; every other input, an unknown code and a
\* missing cell among them, comes back unchanged.
C15_ConvertSourceTotal ==
    fn = "convertSource" =>
        /\ pc = "returned"
        /\ exc = "none"
        /\ stdout = <<>>
        /\ IF notnan(arg["Source Register"]) /\ entriesFor(arg["Source Register"]) # {}
           THEN \A i \in entriesFor(arg["Source Register"]) : ret = source_dict[i][2]
           ELSE ret = arg["Source Register"]

\* C15 witness: convertSource has returned the full name for a code written
\* in small letters
C15_Witness ==
    /\ returned("convertSource")
    /\ arg["Source Register"] = <<"c","h","i","c","t","r">>
    /\ ret = <<"C","h","i","n","e","s","e"," ","C","l","i","n","i","c","a","l"," ","T","r","i","a","l"," ","R","e","g","i","s","t","e","r">>

\* the entries of a country table whose key is the trimmed, lower-cased name
countryEntries(name, t) == {i \in 1..Len(t) : t[i][1] = lower(strip(name))}

\* what the claim C16 has the lookup of a name give
claimedCountry(name, t) ==
    IF countryEntries(name, t) # {}
    THEN t[CHOOSE i \in countryEntries(name, t) : TRUE][2]
    ELSE name

\* the lines the claim has printed for a sequence of names: one for every
\* name that is no key of the table, in order
claimedDiagnostics(names, t) ==
    LET missed == SelectSeq(names, LAMBDA name : countryEntries(name, t) = {})
    IN  [i \in 1..Len(missed) |-> printed(<<"N","o"," ","m","a","t","c","h"," ","f","o","u","n","d"," ","f","o","r"," ","c","o","u","n","t","r","y"," ">> \o missed[i])]

\* C16: for every name and every table standardizeCountry returns and does
\* not raise: the canonical name of the entry when the trimmed, lower-cased
\* name is a key, and else the name exactly as it came, a line about it being
\* printed; and splitCountries returns one "Place" with that result for
\* every token of its text.
C16_CountryLookupNonFatal ==
    /\ fn = "standardizeCountry" =>
          /\ pc = "returned"
          /\ exc = "none"
          /\ ret = claimedCountry(arg["Countries"], table)
          /\ stdout = claimedDiagnostics(<<arg["Countries"]>>, table)
    /\ (fn = "splitCountries" /\ notnan(arg["Countries"])) =>
          /\ pc = "returned"
          /\ exc = "none"
          /\ Len(ret[1]) = Len(tokensAfter(arg["Countries"], 1))
          /\ \A i \in 1..Len(ret[1]) :
                /\ DOMAIN ret[1][i] = {"@type", "studyLocationCountry"}
                /\ ret[1][i]["@type"] = <<"P","l","a","c","e">>
                /\ ret[1][i]["studyLocationCountry"] =
                      claimedCountry(tokensAfter(arg["Countries"], 1)[i], table)
          /\ stdout = claimedDiagnostics(tokensAfter(arg["Countries"], 1), table)

\* C16 witness: standardizeCountry has returned a name with blanks around it
\* and a capital, which no key of the table is, as it came, and has printed
\* a line
C16_Witness ==
    /\ returned("standardizeCountry")
    /\ arg["Countries"] = <<" ","C","h","i","n","a"," ">>
    /\ countryEntries(arg["Countries"], table) = {}
    /\ ret = <<" ","C","h","i","n","a"," ">>
    /\ Len(stdout) = 1

=============================================================================
